---- MODULE Spec2Model ----
(***************************************************************************)
(* Transcode job orchestration of palzino/ZinoCoder.                       *)
(*                                                                         *)
(*   SpecLocal : startTranscoding, the local scheduler                     *)
(*               (internal/transcoder/transcode.go)                        *)
(*   SpecDist  : StartAPITranscoding and its callback endpoint, the        *)
(*               distributed dispatcher                                    *)
(*               (internal/transcoder/apitranscode.go), together with the  *)
(*               worker job APITranscode whose callbacks it receives       *)
(***************************************************************************)
EXTENDS Integers, Naturals, Sequences, FiniteSets, Bags, TLC

(***************************************************************************)
(* Bounds of the model.                                                    *)
(***************************************************************************)
\* largest selection handed to startTranscoding
MaxFiles == 3
\* largest maxConcurrent the operator enters (0 .. MaxConc)
MaxConc == 2
\* largest number of videos the store returns to StartAPITranscoding
MaxVideos == 3
\* largest number of callbacks that arrive from outside the run
MaxForeign == 1
\* number of roster entries the dispatcher is run with
NumServers == 1
\* number of jobs (TranscodeAndRenameVideo or APITranscode) one process runs
MaxJobs == 2
\* largest number of progress lines one parser stores
MaxLines == 1
\* largest hours field of a progress timestamp
MaxHours == 1
\* number of /callback requests served concurrently
MaxHandlers == 3
\* largest number of records given to the directory tree
MaxRecords == 3
\* number of other scheduler runs in the working directory of a background launch
MaxOthers == 1
\* number of jobs finishing at the same time
MaxTasks == 2
\* number of marks between the stem and the extension of a file name
MaxMarks == 2

VARIABLES
    \* ---- startTranscoding (local scheduler) ----
    maxConcurrent,   \* capacity of the channel sem
    nFiles,          \* len(selectedFiles)
    sem,             \* number of tokens in the channel sem
    wg,              \* counter of the sync.WaitGroup
    idx,             \* position of the range loop over selectedFiles
    mainPc,          \* position of startTranscoding
    job,             \* job[i]: position of the goroutine of selectedFiles[i]
    result,          \* result[i]: how TranscodeAndRenameVideo ended for i
    \* ---- StartAPITranscoding (distributed dispatcher) ----
    servers,          \* Servers.servers, the roster
    nVideos,          \* len(videos)
    serverSemaphores, \* tokens in each server's channel
    numVids,          \* the counter the callback handler decrements
    apiWg,            \* counter of the sync.WaitGroup of line 166
    vIdx,             \* position of the range loop over videos
    dPc,              \* position of StartAPITranscoding
    skipped,          \* number of selected videos left without any submission
    tasks,            \* bag of dispatch goroutines and the worker jobs they started
    foreign,          \* callbacks received that no job of this run sent
    \* ---- the jobs of one process and the progress table ----
    apiJobs,          \* TRUE: the jobs are APITranscode; FALSE: TranscodeAndRenameVideo
    jKey,             \* jKey[j]: video.FullFilePath, the progress key of job j
    jOrig,            \* jOrig[j]: originalSize
    jNew,             \* jNew[j]: newSize
    jPc,              \* jPc[j]: position of job j
    jRes,             \* jRes[j]: the return job j took
    pPc,              \* pPc[j]: position of the parseProgress goroutine of job j
    pLines,           \* pLines[j]: progress lines that goroutine has stored
    progressMap,      \* progressMap[k]: "absent", "zero" (&Progress{}) or "sample"
    progressKeys,     \* the slice progressKeys
    totalSpaceSaved,  \* the accumulator totalSpaceSaved
    \* ---- parseProgress on one progress line ----
    outTime,          \* the out_time the encoder reports: [h, m, s, f]
    timestamp,        \* matches[1], a sequence of characters
    totalDuration,    \* video.Length
    elapsed,          \* time.Since(startTime), in seconds
    stored,           \* the Progress values written to progressMap[key]
    divisions,        \* the divisions executed: [line, by]
    \* ---- concurrent /callback handlers ----
    hPc,              \* hPc[h]: position of handler h
    hTmp,             \* hTmp[h]: the value of *numVids handler h has loaded
    hName,            \* hName[h]: payload.ServerName of the request of handler h
    hReply,           \* hReply[h]: the status handler h has answered with
    \* ---- the directory tree and the selection by directory ----
    tree,             \* a record: see its fields below
    \* ---- background mode and transcode_config.json ----
    bg,               \* a record: see its fields below
    \* ---- the locks taken by a job that finishes ----
    lk,               \* a record: see its fields below
    \* ---- the callback listener ----
    listener,         \* "unbound", "listening" or "failed": port 8080
    \* ---- one navigation, one job's path, one name, one request ----
    unit              \* a record: the one object a specification follows

lvars == <<maxConcurrent, nFiles, sem, wg, idx, mainPc, job, result>>

dvars == <<servers, nVideos, serverSemaphores, numVids, apiWg, vIdx, dPc, skipped,
           tasks, foreign>>

jvars == <<apiJobs, jKey, jOrig, jNew, jPc, jRes, pPc, pLines, progressMap,
           progressKeys, totalSpaceSaved>>

pvars == <<outTime, timestamp, totalDuration, elapsed, stored, divisions>>

hvars == <<hPc, hTmp, hName, hReply>>

\* the fields of tree
input == tree.input    \* the records given to AddVideo, in input order
added == tree.added    \* number of records AddVideo has placed
nodes == tree.nodes    \* nodes[kc]: Files of the node reached from the root
                       \* by the chain kc of Children keys
call == tree.call      \* the arguments of the FilterFiles call made
res1 == tree.res1      \* what that call returned
res2 == tree.res2      \* what the same call returned when made again
picked == tree.picked  \* the selection IsInSelectedDirectory has made
baseDir == tree.baseDir \* what FindCommonBaseDir returned

\* the fields of bg
config == bg.config    \* the TranscodeConfig the launching invocation resolved
ckpt == bg.ckpt        \* transcode_config.json: {} when absent, else its content
bgPc == bg.bgPc        \* position of the launching invocation
childPc == bg.childPc  \* position of the detached process
opened == bg.opened    \* the content behind the handle the detached process opened
reads == bg.reads      \* number of times the detached process decoded the file
childConfig == bg.childConfig \* the TranscodeConfig the detached process decoded
childErr == bg.childErr       \* the error the detached process logged
launched == bg.launched       \* number of jobs the detached process has launched
otherPc == bg.otherPc  \* otherPc[o]: position of another run in the same directory

\* the fields of lk
tailPc == lk.tailPc    \* tailPc[t]: the step of JobTail that job t is at
inCall == lk.inCall    \* inCall[t]: job t waits for the call of that step to return
locks == lk.locks      \* locks[m]: the job holding mutex m, 0 when it is free

tvars == <<tree>>

kvars == <<bg>>

mvars == <<lk>>

nvars == <<listener>>

uvars == <<unit>>

xvars == <<tvars, kvars, mvars, nvars, uvars>>

vars == <<lvars, dvars, jvars, pvars, hvars, xvars>>

\* what the steps of one subsystem leave alone
nonLocal == <<dvars, jvars, pvars, hvars, xvars>>
nonDist == <<lvars, jvars, pvars, hvars, xvars>>
nonJobs == <<lvars, dvars, pvars, hvars, xvars>>
nonParse == <<lvars, dvars, jvars, hvars, xvars>>
nonTree == <<lvars, dvars, jvars, pvars, hvars, kvars, mvars, nvars, uvars>>
nonCheckpoint == <<lvars, dvars, jvars, pvars, hvars, tvars, mvars, nvars, uvars>>
nonLocks == <<lvars, dvars, jvars, pvars, hvars, tvars, kvars, nvars, uvars>>
nonListener == <<lvars, dvars, jvars, pvars, hvars, tvars, kvars, mvars, uvars>>
nonUnit == <<lvars, dvars, jvars, pvars, hvars, tvars, kvars, mvars, nvars>>

(***************************************************************************)
(* Local scheduler: startTranscoding, transcode.go 201-229                 *)
(***************************************************************************)

\* The steps at which TranscodeAndRenameVideo returns: the five early
\* returns and the normal end.
Outcomes == {"sizeProbeErr", "stderrPipeErr", "startErr", "waitErr",
             "newSizeErr", "ok"}

Files == 1..nFiles

\* a send on a channel holding n tokens of capacity cap does not block (an
\* unbuffered channel, cap = 0, has no receiver waiting at line 214)
SemCanSend_Unbounded(n, cap) == TRUE
SemCanSend(n, cap) == n < cap

\* wg.Wait() returns when the counter is zero
WgWaitReturns_NoBarrier(c) == TRUE
WgWaitReturns(c) == c = 0

\* line 218-222: whichever return TranscodeAndRenameVideo took, the goroutine
\* goes on to the receive of line 222
StepAfterTranscode_FailureExits(o) == IF o = "ok" THEN "release" ELSE "exited"
StepAfterTranscode(o) == "release"

\* the jobs that hold an admission slot: launched, slot not yet released
HoldsSlot(i) == job[i] \in {"transcode", "release"}
SlotHolders == {i \in Files : HoldsSlot(i)}

\* the scheduler before startTranscoding is called
IdleLocal ==
    /\ maxConcurrent = 0
    /\ nFiles = 0
    /\ sem = 0
    /\ wg = 0
    /\ idx = 1
    /\ mainPc = "idle"
    /\ job = [i \in 1..MaxFiles |-> "none"]
    /\ result = [i \in 1..MaxFiles |-> "none"]

\* the dispatcher before StartAPITranscoding is called
IdleDist ==
    /\ servers = << >>
    /\ nVideos = 0
    /\ serverSemaphores = << >>
    /\ numVids = 0
    /\ apiWg = 0
    /\ vIdx = 1
    /\ dPc = "idle"
    /\ skipped = 0
    /\ tasks = EmptyBag
    /\ foreign = 0

\* no job has been started in the process
IdleJobs ==
    /\ apiJobs = FALSE
    /\ jKey = << >>
    /\ jOrig = << >>
    /\ jNew = << >>
    /\ jPc = << >>
    /\ jRes = << >>
    /\ pPc = << >>
    /\ pLines = << >>
    /\ progressMap = << >>
    /\ progressKeys = << >>
    /\ totalSpaceSaved = 0

\* no progress line has been read
IdleParse ==
    /\ outTime = << >>
    /\ timestamp = << >>
    /\ totalDuration = 0
    /\ elapsed = 0
    /\ stored = {}
    /\ divisions = {}

\* no /callback request is being served
IdleHandlers ==
    /\ hPc = [h \in 1..MaxHandlers |-> "idle"]
    /\ hTmp = [h \in 1..MaxHandlers |-> 0]
    /\ hName = [h \in 1..MaxHandlers |-> ""]
    /\ hReply = [h \in 1..MaxHandlers |-> "none"]

\* no directory tree is being built and no selection made
IdleTree ==
    tree = [input |-> << >>, added |-> 0, nodes |-> << >>, call |-> {},
            res1 |-> {}, res2 |-> {}, picked |-> {}, baseDir |-> {}]

\* no background launch is under way
IdleCheckpoint ==
    bg = [config |-> << >>, ckpt |-> {}, bgPc |-> "idle", childPc |-> "none",
          opened |-> {}, reads |-> 0, childConfig |-> {}, childErr |-> "none",
          launched |-> 0, otherPc |-> << >>]

\* no job is finishing
IdleLocks ==
    lk = [tailPc |-> << >>, inCall |-> << >>, locks |-> << >>]

\* nothing listens on the callback port
IdleListener == listener = "unbound"

\* no single object is followed
IdleUnit == unit = << >>

IdleRest ==
    /\ IdleTree
    /\ IdleCheckpoint
    /\ IdleLocks
    /\ IdleListener
    /\ IdleUnit

InitLocal ==
    /\ IdleDist
    /\ IdleJobs
    /\ IdleParse
    /\ IdleHandlers
    /\ IdleRest
    /\ maxConcurrent \in 0..MaxConc
    /\ nFiles \in 0..MaxFiles
    /\ sem = 0
    /\ wg = 0
    /\ idx = 1
    /\ mainPc = "range"
    /\ job = [i \in 1..MaxFiles |-> "none"]
    /\ result = [i \in 1..MaxFiles |-> "none"]

\* line 211-213: next element of the range loop, wg.Add(1); or loop end
RangeNext ==
    /\ mainPc = "range"
    /\ idx <= nFiles
    /\ wg' = wg + 1
    /\ mainPc' = "acquire"
    /\ UNCHANGED <<maxConcurrent, nFiles, sem, idx, job, result>>
    /\ UNCHANGED nonLocal

RangeEnd ==
    /\ mainPc = "range"
    /\ idx > nFiles
    /\ mainPc' = "wait"
    /\ UNCHANGED <<maxConcurrent, nFiles, sem, wg, idx, job, result>>
    /\ UNCHANGED nonLocal

\* line 214: sem <- struct{}{}
Acquire ==
    /\ mainPc = "acquire"
    /\ SemCanSend(sem, maxConcurrent)
    /\ sem' = sem + 1
    /\ mainPc' = "launch"
    /\ UNCHANGED <<maxConcurrent, nFiles, wg, idx, job, result>>
    /\ UNCHANGED nonLocal

\* line 215, 223: go func(video) {...}(video)
Launch ==
    /\ mainPc = "launch"
    /\ job' = [job EXCEPT ![idx] = "transcode"]
    /\ idx' = idx + 1
    /\ mainPc' = "range"
    /\ UNCHANGED <<maxConcurrent, nFiles, sem, wg, result>>
    /\ UNCHANGED nonLocal

\* line 218: TranscodeAndRenameVideo returns, at one of its returns
Transcode(i) ==
    /\ job[i] = "transcode"
    /\ \E o \in Outcomes :
           /\ result' = [result EXCEPT ![i] = o]
           /\ job' = [job EXCEPT ![i] = StepAfterTranscode(o)]
    /\ UNCHANGED <<maxConcurrent, nFiles, sem, wg, idx, mainPc>>
    /\ UNCHANGED nonLocal

\* line 222: <-sem
Release(i) ==
    /\ job[i] = "release"
    /\ sem > 0
    /\ sem' = sem - 1
    /\ job' = [job EXCEPT ![i] = "defer"]
    /\ UNCHANGED <<maxConcurrent, nFiles, wg, idx, mainPc, result>>
    /\ UNCHANGED nonLocal

\* line 216: the deferred wg.Done()
WgDone(i) ==
    /\ job[i] = "defer"
    /\ wg' = wg - 1
    /\ job' = [job EXCEPT ![i] = "done"]
    /\ UNCHANGED <<maxConcurrent, nFiles, sem, idx, mainPc, result>>
    /\ UNCHANGED nonLocal

\* line 226-228: wg.Wait(), the log line, the checkpoint removed
WaitReturn ==
    /\ mainPc = "wait"
    /\ WgWaitReturns(wg)
    /\ mainPc' = "returned"
    /\ UNCHANGED <<maxConcurrent, nFiles, sem, wg, idx, job, result>>
    /\ UNCHANGED nonLocal

NextLocal ==
    \/ RangeNext
    \/ RangeEnd
    \/ Acquire
    \/ Launch
    \/ \E i \in 1..MaxFiles : Transcode(i)
    \/ \E i \in 1..MaxFiles : Release(i)
    \/ \E i \in 1..MaxFiles : WgDone(i)
    \/ WaitReturn

SpecLocal == InitLocal /\ [][NextLocal]_vars

(***************************************************************************)
(* Claims on the local scheduler                                           *)
(***************************************************************************)

\* C1: with maxConcurrent = N >= 1, at most N jobs hold an admission slot
\* (launched, slot not yet released) in every reachable state.
C1_AtMostNSlotHolders ==
    maxConcurrent >= 1 => Cardinality(SlotHolders) <= maxConcurrent

\* the pool is saturated: N = 2 jobs hold a slot and the loop is blocked on
\* the third record
C1_Witness ==
    /\ maxConcurrent = 2
    /\ nFiles > maxConcurrent
    /\ Cardinality(SlotHolders) = maxConcurrent
    /\ mainPc = "acquire"

\* C2: startTranscoding returns only when every job it launched has
\* terminated, by success or by failure.
C2_ReturnAfterAllJobs ==
    mainPc = "returned" => \A i \in Files : job[i] = "done"

\* returned after a batch in which one job failed and another succeeded
C2_Witness ==
    /\ mainPc = "returned"
    /\ \E i, k \in Files : result[i] = "ok" /\ result[k] = "waitErr"

\* the scheduler, with every goroutine that can take a step taking one
\* eventually
SpecLocalFair == SpecLocal /\ WF_vars(NextLocal)

\* the returns of TranscodeAndRenameVideo at the size probe (line 357-362), at
\* cmd.Start (424-429) and at cmd.Wait (435-439)
Failures == {"sizeProbeErr", "startErr", "waitErr"}

\* C11: once a job has failed at the size probe, at process start or at
\* process exit, the scheduler still comes to return with every record of the
\* selection launched and ended, every slot released and the barrier at zero.
C11_FailureAbortsOnlyItsJob ==
    (\E i \in Files : result[i] \in Failures)
        ~> ( /\ mainPc = "returned"
             /\ sem = 0
             /\ wg = 0
             /\ \A k \in Files : job[k] = "done" )

\* returned after a selection in which one job failed at the size probe,
\* another at process start, and a third succeeded
C11_Witness ==
    /\ mainPc = "returned"
    /\ sem = 0
    /\ \E i, k, m \in Files :
           result[i] = "sizeProbeErr" /\ result[k] = "startErr" /\ result[m] = "ok"

(***************************************************************************)
(* Distributed dispatcher: apitranscode.go                                 *)
(***************************************************************************)

\* line 103-109: the roster
Roster == << [name |-> "Server1", concurrent |-> 2],
             [name |-> "Server2", concurrent |-> 3],
             [name |-> "Server3", concurrent |-> 3] >>

\* the first k servers of the roster
RosterPrefix(k) == SubSeq(Roster, 1, IF k < Len(Roster) THEN k ELSE Len(Roster))

ServerNames == {servers[i].name : i \in 1..Len(servers)}

\* capacity of the channel made for the server called n (line 154)
Concurrent(n) ==
    servers[CHOOSE i \in 1..Len(servers) : servers[i].name = n].concurrent

\* payload.ServerName of a callback that carries no "server_name" field:
\* the payloads APITranscode builds (transcode.go 952-956, 990-993)
NoServerName == ""

\* the ServerName values a callback payload decodes to: the roster's names,
\* the empty string, and a name that is not in the roster
CallbackNames == ServerNames \cup {NoServerName, "ServerX"}

\* line 80-86: select { case sem <- struct{}{}: ... default: ... }
ChanOffer_Blind(n, cap) == n + 1
ChanOffer(n, cap) == IF n < cap THEN n + 1 ELSE n

\* line 78-87: the semaphores after the handler looked up name
SemaphoresAfterCallback_FirstServer(sems, name) ==
    LET n == IF name \in DOMAIN sems THEN name ELSE servers[1].name
    IN  [sems EXCEPT ![n] = ChanOffer(@, Concurrent(n))]
SemaphoresAfterCallback(sems, name) ==
    IF name \in DOMAIN sems
    THEN [sems EXCEPT ![name] = ChanOffer(@, Concurrent(name))]
    ELSE sems

\* line 61-91: the /callback handler on a payload that decodes
HandleCallback(name) ==
    /\ numVids' = numVids - 1
    /\ serverSemaphores' = SemaphoresAfterCallback(serverSemaphores, name)

\* How a submission ends in sendToTranscodingServer (line 46-57): http.Post
\* fails, or the endpoint answers with a status. handleTranscode answers 400
\* or 202 (transcode.go 823-835); 200 is the one status line 53 takes as
\* success.
Replies == {"transportErr", "400", "202", "200"}

\* line 47-57: sendToTranscodingServer returns an error
IsError(reply) == reply # "200"

\* the endpoint started a job for the request
Accepted(reply) == reply \in {"202", "200"}

\* A dispatch goroutine of line 179-187 together with the job it started on
\* the worker.
\*   st   "sending"   the request is in flight, the credit is out
\*        "blocked"   the goroutine is blocked in the send of line 185
\*        "returned"  the goroutine has put the credit back and ended
\*        "kept"      the goroutine has ended without an error, the credit
\*                    stays out
\*   err  the reply the goroutine is blocked on ("" when it is not blocked)
\*   job  "awaiting"  the worker started APITranscode for it and no callback
\*                    of that job has been handled; "none" otherwise
\* A goroutine that has ended leaves the bag once no callback is awaited.
Task(w, st, err, j) == [server |-> w, st |-> st, err |-> err, job |-> j]

One(t) == SetToBag({t})
TaskSet == BagToSet(tasks)

Forgotten(t) == t.st \in {"returned", "kept"} /\ t.job = "none"

\* the bag with t replaced by u
Replace(t, u) ==
    IF Forgotten(u) THEN tasks (-) One(t) ELSE (tasks (-) One(t)) (+) One(u)

\* jobs submitted to w whose completion callback has not been received
Outstanding(w) ==
    LET awaiting == {t \in TaskSet : t.server = w /\ t.job = "awaiting"}
        Sum[S \in SUBSET awaiting] ==
            IF S = {} THEN 0
            ELSE LET t == CHOOSE x \in S : TRUE
                 IN  CopiesIn(t, tasks) + Sum[S \ {t}]
    IN  Sum[awaiting]

InitDist ==
    /\ IdleLocal
    /\ IdleJobs
    /\ IdleParse
    /\ IdleHandlers
    /\ IdleRest
    /\ servers = RosterPrefix(NumServers)
    /\ nVideos \in 0..MaxVideos
    \* line 152-160: every channel filled to its capacity
    /\ serverSemaphores = [n \in ServerNames |-> Concurrent(n)]
    \* line 163
    /\ numVids = nVideos
    /\ apiWg = 0
    /\ vIdx = 1
    /\ dPc = "videos"
    /\ skipped = 0
    /\ tasks = EmptyBag
    /\ foreign = 0

\* line 175-193, the loop over the roster for one video. At each server the
\* select either finds a token in the server's channel (wg.Add(1), the
\* goroutine is started, break leaves the select) or takes default: continue;
\* either way the loop goes on with the next server.
ServersTaken(sems) == {n \in ServerNames : sems[n] > 0}

\* line 170-195: one iteration of the range loop over videos; the condition
\* of the if (line 171-172) is an input of the step
ScanVideo(sel) ==
    /\ dPc = "videos"
    /\ vIdx <= nVideos
    /\ vIdx' = vIdx + 1
    /\ IF sel
       THEN LET got == ServersTaken(serverSemaphores) IN
            /\ serverSemaphores' =
                   [n \in ServerNames |->
                       IF n \in got THEN serverSemaphores[n] - 1
                                    ELSE serverSemaphores[n]]
            /\ tasks' = tasks (+) SetToBag({Task(n, "sending", "", "none") : n \in got})
            /\ apiWg' = apiWg + Cardinality(got)
            /\ skipped' = IF got = {} THEN skipped + 1 ELSE skipped
       ELSE UNCHANGED <<serverSemaphores, tasks, apiWg, skipped>>
    /\ UNCHANGED <<nVideos, numVids, dPc, foreign>>
    /\ UNCHANGED <<nonDist, servers>>

\* line 195-197: the loop over videos ends
EndVideos ==
    /\ dPc = "videos"
    /\ vIdx > nVideos
    /\ dPc' = "wait"
    /\ UNCHANGED <<nVideos, serverSemaphores, numVids, apiWg, vIdx, skipped,
                   tasks, foreign>>
    /\ UNCHANGED <<nonDist, servers>>

\* line 197-199: wg.Wait() returns, the message is printed
DispatchReturn ==
    /\ dPc = "wait"
    /\ WgWaitReturns(apiWg)
    /\ dPc' = "done"
    /\ UNCHANGED <<nVideos, serverSemaphores, numVids, apiWg, vIdx, skipped,
                   tasks, foreign>>
    /\ UNCHANGED <<nonDist, servers>>

\* line 182-187: sendToTranscodingServer returns. Without an error the
\* goroutine ends (line 180: wg.Done). With an error it sends on the server's
\* channel first, which blocks while the channel is full.
SubmitReply(t, reply) ==
    /\ t \in TaskSet
    /\ t.st = "sending"
    /\ LET j == IF Accepted(reply) THEN "awaiting" ELSE "none" IN
       IF ~IsError(reply)
       THEN /\ tasks' = Replace(t, Task(t.server, "kept", "", j))
            /\ apiWg' = apiWg - 1
            /\ UNCHANGED serverSemaphores
       ELSE IF SemCanSend(serverSemaphores[t.server], Concurrent(t.server))
       THEN /\ serverSemaphores' = [serverSemaphores EXCEPT ![t.server] = @ + 1]
            /\ tasks' = Replace(t, Task(t.server, "returned", "", j))
            /\ apiWg' = apiWg - 1
       ELSE /\ tasks' = Replace(t, Task(t.server, "blocked", reply, j))
            /\ UNCHANGED <<serverSemaphores, apiWg>>
    /\ UNCHANGED <<nVideos, numVids, vIdx, dPc, skipped,
                   foreign>>
    /\ UNCHANGED <<nonDist, servers>>

\* line 185: the blocked send goes through; line 180: wg.Done
BlockedSend(t) ==
    /\ t \in TaskSet
    /\ t.st = "blocked"
    /\ SemCanSend(serverSemaphores[t.server], Concurrent(t.server))
    /\ serverSemaphores' = [serverSemaphores EXCEPT ![t.server] = @ + 1]
    /\ tasks' = Replace(t, Task(t.server, "returned", "", t.job))
    /\ apiWg' = apiWg - 1
    /\ UNCHANGED <<nVideos, numVids, vIdx, dPc, skipped,
                   foreign>>
    /\ UNCHANGED <<nonDist, servers>>

(***************************************************************************)
(* The worker job APITranscode, transcode.go 851-1009, as far as the       *)
(* dispatcher sees it: the callbacks of it that reach the endpoint. Their  *)
(* payloads carry no server name. A job that sends no callback (the        *)
(* returns of line 857-862, 903-908, 921-926, 932-937, an empty            *)
(* callbackURL, sendCallback failing at line 1020-1024) is awaited for     *)
(* ever. Of a job that sends two (line 951-957, then line 989-994) the     *)
(* second reaches the endpoint when the job is no longer awaited: it is a  *)
(* ForeignCallback(NoServerName).                                          *)
(***************************************************************************)
JobCallback(t) ==
    /\ t \in TaskSet
    /\ t.job = "awaiting"
    /\ tasks' = Replace(t, [t EXCEPT !.job = "none"])
    /\ HandleCallback(NoServerName)
    /\ UNCHANGED <<nVideos, apiWg, vIdx, dPc, skipped, foreign>>
    /\ UNCHANGED <<nonDist, servers>>

\* a POST to /callback that no awaited job of this run sent (a duplicate, a
\* worker of another run, any other client)
ForeignCallback(name) ==
    /\ dPc # "idle"
    /\ foreign < MaxForeign
    /\ foreign' = foreign + 1
    /\ HandleCallback(name)
    /\ UNCHANGED <<nVideos, apiWg, vIdx, dPc, skipped,
                   tasks>>
    /\ UNCHANGED <<nonDist, servers>>

NextDist ==
    \/ \E sel \in BOOLEAN : ScanVideo(sel)
    \/ EndVideos
    \/ DispatchReturn
    \/ \E t \in TaskSet, r \in Replies : SubmitReply(t, r)
    \/ \E t \in TaskSet : BlockedSend(t)
    \/ \E t \in TaskSet : JobCallback(t)
    \/ \E n \in CallbackNames : ForeignCallback(n)

SpecDist == InitDist /\ [][NextDist]_vars

(***************************************************************************)
(* Claims on the distributed dispatcher                                    *)
(***************************************************************************)

\* C3: for every worker with capacity c, the number of jobs submitted to it
\* whose completion callback has not been received is at most c.
C3_OutstandingWithinCapacity ==
    \A n \in ServerNames : Outstanding(n) <= Concurrent(n)

\* C4: the credits in every worker's pool stay between 0 and the worker's
\* capacity, whatever dispatches, dispatch errors and callbacks occur.
C4_CreditsWithinCapacity ==
    \A n \in ServerNames :
        serverSemaphores[n] >= 0 /\ serverSemaphores[n] <= Concurrent(n)

\* a callback naming the worker has filled its pool while a dispatch to that
\* worker still has its credit out: one more credit would exceed the capacity
C4_Witness ==
    \E t \in TaskSet :
        /\ t.st \in {"sending", "blocked"}
        /\ serverSemaphores[t.server] = Concurrent(t.server)
        /\ foreign > 0

\* C5: while a job the worker accepted has had no completion callback, the
\* credit taken for it has not been put back.
C5_NoCreditBeforeCallback ==
    \A t \in TaskSet : t.job = "awaiting" => t.st # "returned"

\* C6: a dispatch goroutine whose submission failed with a transport error
\* puts its credit back without waiting: it is never left blocked.
C6_TransportErrorReturnsCredit ==
    \A t \in TaskSet : ~(t.st = "blocked" /\ t.err = "transportErr")

\* C7: once the dispatch has returned, no goroutine is left and every job has
\* finished and called back, every pool is back at full capacity.
C7_PoolsFullWhenQuiet ==
    (dPc = "done" /\ tasks = EmptyBag)
        => \A n \in ServerNames : serverSemaphores[n] = Concurrent(n)

\* C8: no selected record is skipped: the loop never leaves a selected record
\* without a submission.
C8_NoSelectedRecordSkipped == skipped = 0

\* C9: the dispatch returns only once the outstanding-job counter is zero and
\* a callback has been received for every job it dispatched.
C9_ReturnsAtCounterZero ==
    [][ (dPc = "wait" /\ dPc' = "done")
        => /\ numVids = 0
           /\ \A n \in ServerNames : Outstanding(n) = 0 ]_vars

\* the names of CallbackNames that are not in the roster
UnknownNames == CallbackNames \ ServerNames

\* C10: a callback whose worker name is not in the roster leaves every
\* worker's credit pool unchanged.
C10_UnknownNameLeavesPools ==
    [][ ( \/ \E n \in UnknownNames : ForeignCallback(n)
          \/ \E t \in TaskSet : JobCallback(t) )
        => serverSemaphores' = serverSemaphores ]_vars

\* only callbacks of jobs, which carry no server name, have been handled, and
\* a pool is short of a credit that the handler did not put back
C10_Witness ==
    /\ dPc # "idle"
    /\ foreign = 0
    /\ numVids < nVideos
    /\ \E n \in ServerNames : serverSemaphores[n] < Concurrent(n)

(***************************************************************************)
(* The jobs of one process and the progress table: TranscodeAndRenameVideo *)
(* (transcode.go 349-502), APITranscode (851-1009) and the parseProgress   *)
(* goroutine each of them starts (525-558)                                 *)
(***************************************************************************)

Jobs == 1..MaxJobs

\* the values of video.FullFilePath
Keys == {"a.mkv", "b.mkv"}

\* the sizes getFileSize returns for a source and for an output
OrigSizes == {2}
NewSizes == {1, 3}

InitJobs ==
    /\ IdleLocal
    /\ IdleDist
    /\ IdleParse
    /\ IdleHandlers
    /\ IdleRest
    /\ apiJobs \in BOOLEAN
    /\ jKey \in [Jobs -> Keys]
    /\ jOrig \in [Jobs -> OrigSizes]
    /\ jNew = [j \in Jobs |-> 0]
    /\ jPc = [j \in Jobs |-> "new"]
    /\ jRes = [j \in Jobs |-> "none"]
    /\ pPc = [j \in Jobs |-> "none"]
    /\ pLines = [j \in Jobs |-> 0]
    \* line 86-87, 91
    /\ progressMap = [k \in Keys |-> "absent"]
    /\ progressKeys = << >>
    /\ totalSpaceSaved = 0

\* line 357-362 and 405-411 (856-862, 902-908): the size probe and the stderr
\* pipe; either can fail, and the job returns
JobPrepare(j) ==
    /\ jPc[j] = "new"
    /\ \E o \in {"sizeProbeErr", "stderrPipeErr", "ok"} :
          IF o = "ok"
          THEN /\ jPc' = [jPc EXCEPT ![j] = "register"]
               /\ UNCHANGED jRes
          ELSE /\ jPc' = [jPc EXCEPT ![j] = "done"]
               /\ jRes' = [jRes EXCEPT ![j] = o]
    /\ UNCHANGED <<apiJobs, jKey, jOrig, jNew, pPc, pLines, progressMap,
                   progressKeys, totalSpaceSaved>>
    /\ UNCHANGED nonJobs

\* line 414-420 (911-917), under progressMutex
JobRegister(j) ==
    /\ jPc[j] = "register"
    /\ IF progressMap[jKey[j]] = "absent"
       THEN /\ progressMap' = [progressMap EXCEPT ![jKey[j]] = "zero"]
            /\ progressKeys' = Append(progressKeys, jKey[j])
       ELSE UNCHANGED <<progressMap, progressKeys>>
    /\ jPc' = [jPc EXCEPT ![j] = "start"]
    /\ UNCHANGED <<apiJobs, jKey, jOrig, jNew, jRes, pPc, pLines,
                   totalSpaceSaved>>
    /\ UNCHANGED nonJobs

\* line 424-432 (921-929): cmd.Start fails and the job returns, or the
\* process runs and the parseProgress goroutine is started
JobStart(j) ==
    /\ jPc[j] = "start"
    /\ \/ /\ jPc' = [jPc EXCEPT ![j] = "done"]
          /\ jRes' = [jRes EXCEPT ![j] = "startErr"]
          /\ UNCHANGED pPc
       \/ /\ jPc' = [jPc EXCEPT ![j] = "wait"]
          /\ pPc' = [pPc EXCEPT ![j] = "scan"]
          /\ UNCHANGED jRes
    /\ UNCHANGED <<apiJobs, jKey, jOrig, jNew, pLines, progressMap,
                   progressKeys, totalSpaceSaved>>
    /\ UNCHANGED nonJobs

\* line 435-439 (932-937): the process has exited and cmd.Wait returns, with
\* an error (the job returns) or without
JobWait(j) ==
    /\ jPc[j] = "wait"
    /\ \/ /\ jPc' = [jPc EXCEPT ![j] = "done"]
          /\ jRes' = [jRes EXCEPT ![j] = "waitErr"]
       \/ /\ jPc' = [jPc EXCEPT ![j] = "delete"]
          /\ UNCHANGED jRes
    /\ UNCHANGED <<apiJobs, jKey, jOrig, jNew, pPc, pLines, progressMap,
                   progressKeys, totalSpaceSaved>>
    /\ UNCHANGED nonJobs

\* line 443-445 (941-943), under progressMutex
JobDelete(j) ==
    /\ jPc[j] = "delete"
    /\ progressMap' = [progressMap EXCEPT ![jKey[j]] = "absent"]
    /\ jPc' = [jPc EXCEPT ![j] = "size"]
    /\ UNCHANGED <<apiJobs, jKey, jOrig, jNew, jRes, pPc, pLines,
                   progressKeys, totalSpaceSaved>>
    /\ UNCHANGED nonJobs

\* line 448-454: TranscodeAndRenameVideo returns when the probe of the output
\* fails. line 946-959: APITranscode does not return, newSize is the 0 that
\* getFileSize returned with the error (line 606)
AddsAfterFailedProbe == apiJobs

\* line 448-462 (946-967): the probe of the output, spaceSaved, and the
\* addition under spaceSavedMutex; then the job runs to its end
JobFinish(j) ==
    /\ jPc[j] = "size"
    /\ \/ \E n \in NewSizes :
             /\ jNew' = [jNew EXCEPT ![j] = n]
             /\ totalSpaceSaved' = totalSpaceSaved + (jOrig[j] - n)
             /\ jRes' = [jRes EXCEPT ![j] = "ok"]
       \/ /\ jRes' = [jRes EXCEPT ![j] = "newSizeErr"]
          /\ UNCHANGED jNew
          /\ totalSpaceSaved' = IF AddsAfterFailedProbe
                                THEN totalSpaceSaved + (jOrig[j] - 0)
                                ELSE totalSpaceSaved
    /\ jPc' = [jPc EXCEPT ![j] = "done"]
    /\ UNCHANGED <<apiJobs, jKey, jOrig, pPc, pLines, progressMap,
                   progressKeys>>
    /\ UNCHANGED nonJobs

\* line 529-541: scanner.Scan returned a line that matches and the record was
\* computed. The bufio.Scanner reads the pipe in blocks, so lines are still
\* delivered from its buffer after cmd.Wait has closed the pipe.
ParserScan(j) ==
    /\ pPc[j] = "scan"
    /\ pLines[j] < MaxLines
    /\ pPc' = [pPc EXCEPT ![j] = "line"]
    /\ UNCHANGED <<apiJobs, jKey, jOrig, jNew, jPc, jRes, pLines, progressMap,
                   progressKeys, totalSpaceSaved>>
    /\ UNCHANGED nonJobs

\* line 544-550, under progressMutex
ParserStore(j) ==
    /\ pPc[j] = "line"
    /\ progressMap' = [progressMap EXCEPT ![jKey[j]] = "sample"]
    /\ pLines' = [pLines EXCEPT ![j] = @ + 1]
    /\ pPc' = [pPc EXCEPT ![j] = "scan"]
    /\ UNCHANGED <<apiJobs, jKey, jOrig, jNew, jPc, jRes, progressKeys,
                   totalSpaceSaved>>
    /\ UNCHANGED nonJobs

\* line 529, 558: scanner.Scan returns false once the process has exited and
\* the pipe is at its end
ParserEnd(j) ==
    /\ pPc[j] = "scan"
    /\ jPc[j] # "wait"
    /\ pPc' = [pPc EXCEPT ![j] = "ended"]
    /\ UNCHANGED <<apiJobs, jKey, jOrig, jNew, jPc, jRes, pLines, progressMap,
                   progressKeys, totalSpaceSaved>>
    /\ UNCHANGED nonJobs

NextJobs ==
    \/ \E j \in Jobs : JobPrepare(j)
    \/ \E j \in Jobs : JobRegister(j)
    \/ \E j \in Jobs : JobStart(j)
    \/ \E j \in Jobs : JobWait(j)
    \/ \E j \in Jobs : JobDelete(j)
    \/ \E j \in Jobs : JobFinish(j)
    \/ \E j \in Jobs : ParserScan(j)
    \/ \E j \in Jobs : ParserStore(j)
    \/ \E j \in Jobs : ParserEnd(j)

SpecJobs == InitJobs /\ [][NextJobs]_vars

\* line 568-573, 578-583: what DisplayProgress prints, the keys of
\* progressKeys that are in progressMap, in the order of the slice
Present(k) == progressMap[k] # "absent"
Snapshot == SelectSeq(progressKeys, Present)

\* job j has passed the registration of line 415-420
Registered(j) ==
    \/ jPc[j] \in {"start", "wait", "delete", "size"}
    \/ jPc[j] = "done" /\ jRes[j] \notin {"sizeProbeErr", "stderrPipeErr"}

\* job j has passed the delete of line 443-445
Removed(j) ==
    \/ jPc[j] = "size"
    \/ jPc[j] = "done" /\ jRes[j] \in {"ok", "newSizeErr"}

(***************************************************************************)
(* Claims on the jobs and the progress table                               *)
(***************************************************************************)

\* C12: when a job has ended by a process-start or process-exit failure, and
\* every job that registered the same key has ended too, the progress table
\* holds no entry for the key.
C12_EntryRemovedOnFailure ==
    \A k \in Keys :
        ( /\ \E j \in Jobs : /\ jKey[j] = k
                             /\ jPc[j] = "done"
                             /\ jRes[j] \in {"startErr", "waitErr"}
          /\ \A j \in Jobs : (jKey[j] = k /\ Registered(j)) => jPc[j] = "done" )
        => progressMap[k] = "absent"

\* C13: once a job has removed the key it registered, and no other job has
\* the key registered, the progress table holds no entry for the key,
\* whatever the job's parser goroutine still does.
C13_NoEntryAfterRemoval ==
    \A k \in Keys :
        ( /\ \E j \in Jobs : jKey[j] = k /\ Removed(j)
          /\ \A j \in Jobs : (jKey[j] = k /\ Registered(j)) => Removed(j) )
        => progressMap[k] = "absent"

\* C14: the display snapshot lists no key twice.
C14_SnapshotListsKeyOnce ==
    \A a, b \in 1..Len(Snapshot) : Snapshot[a] = Snapshot[b] => a = b

\* the sum of originalSize - newSize over the jobs that ended successfully
RECURSIVE SavedBy(_)
SavedBy(S) ==
    IF S = {} THEN 0
    ELSE LET j == CHOOSE x \in S : TRUE
         IN  (jOrig[j] - jNew[j]) + SavedBy(S \ {j})

Succeeded == {j \in Jobs : jPc[j] = "done" /\ jRes[j] = "ok"}

\* C19: the space-saved accumulator is the sum of originalSize - newSize over
\* the jobs that have completed successfully; a failed job adds nothing.
C19_SpaceSavedIsSumOfSuccesses ==
    totalSpaceSaved = SavedBy(Succeeded)

(***************************************************************************)
(* parseProgress on one progress line: transcode.go 525-558, 590-601       *)
(***************************************************************************)

\* ---- strings, as sequences of one-character strings ----

Digits == <<"0", "1", "2", "3", "4", "5", "6", "7", "8", "9">>

IsDigit(c) == \E d \in 1..10 : Digits[d] = c
DigitValue(c) == (CHOOSE d \in 1..10 : Digits[d] = c) - 1

\* the encoder's output: a field printed with two digits
Pad2(n) == <<Digits[(n \div 10) + 1], Digits[(n % 10) + 1]>>

\* the encoder's output: out_time=HH:MM:SS.ff
FormatTimestamp(t) ==
    Pad2(t.h) \o <<":">> \o Pad2(t.m) \o <<":">> \o Pad2(t.s) \o <<".">> \o Pad2(t.f)

\* strings.Split(str, sep) for a one-character sep
RECURSIVE Split(_, _)
Split(str, sep) ==
    IF \A i \in 1..Len(str) : str[i] # sep
    THEN <<str>>
    ELSE LET i == CHOOSE x \in 1..Len(str) :
                      str[x] = sep /\ \A y \in 1..(x - 1) : str[y] # sep
         IN  <<SubSeq(str, 1, i - 1)>> \o Split(SubSeq(str, i + 1, Len(str)), sep)

\* the number a sequence of digits denotes
RECURSIVE DecimalValue(_)
DecimalValue(str) ==
    IF str = << >> THEN 0
    ELSE 10 * DecimalValue(SubSeq(str, 1, Len(str) - 1)) + DigitValue(str[Len(str)])

AllDigits(str) == str # << >> /\ \A i \in 1..Len(str) : IsDigit(str[i])

RECURSIVE PowerOfTen(_)
PowerOfTen(n) == IF n = 0 THEN 1 ELSE 10 * PowerOfTen(n - 1)

\* ---- float64, as exact fractions n/d with d > 0, and the special values;
\* rounding is not modelled ----

Fin(n, d) == [k |-> "fin", n |-> n, d |-> d]
PosInf == [k |-> "+Inf", n |-> 0, d |-> 1]
NegInf == [k |-> "-Inf", n |-> 0, d |-> 1]
NaN == [k |-> "NaN", n |-> 0, d |-> 1]

\* float64(i)
FromInt(i) == Fin(i, 1)

IsNegative(x) == x.k = "-Inf" \/ (x.k = "fin" /\ x.n < 0)
IsZero(x) == x.k = "fin" /\ x.n = 0
Negated(x) ==
    IF x.k = "+Inf" THEN NegInf
    ELSE IF x.k = "-Inf" THEN PosInf
    ELSE IF x.k = "fin" THEN Fin(-x.n, x.d)
    ELSE NaN

\* x / y; a division by zero does not panic
FDiv(x, y) ==
    IF x.k = "NaN" \/ y.k = "NaN" THEN NaN
    ELSE IF x.k = "fin" /\ y.k = "fin"
    THEN IF y.n = 0
         THEN IF x.n = 0 THEN NaN ELSE IF x.n > 0 THEN PosInf ELSE NegInf
         ELSE IF y.n > 0 THEN Fin(x.n * y.d, x.d * y.n)
                         ELSE Fin(-(x.n * y.d), x.d * (-y.n))
    ELSE IF x.k = "fin" THEN Fin(0, 1)
    ELSE IF y.k = "fin" THEN (IF IsNegative(y) THEN Negated(x) ELSE x)
    ELSE NaN

\* x * y
FMul(x, y) ==
    IF x.k = "NaN" \/ y.k = "NaN" THEN NaN
    ELSE IF x.k = "fin" /\ y.k = "fin" THEN Fin(x.n * y.n, x.d * y.d)
    ELSE IF IsZero(x) \/ IsZero(y) THEN NaN
    ELSE IF IsNegative(x) = IsNegative(y) THEN PosInf ELSE NegInf

\* x - y
FSub(x, y) ==
    IF x.k = "NaN" \/ y.k = "NaN" THEN NaN
    ELSE IF x.k = "fin" /\ y.k = "fin" THEN Fin(x.n * y.d - y.n * x.d, x.d * y.d)
    ELSE IF x.k = "fin" THEN Negated(y)
    ELSE IF y.k = "fin" THEN x
    ELSE IF x.k = y.k THEN NaN ELSE x

\* a time.Duration: a number of seconds, or one of the ends of int64
Dur(v) == [k |-> "dur", v |-> v]

\* time.Duration(x) for a float64 x: the fraction is discarded; for a value
\* int64 cannot represent the result depends on the implementation
OutOfRange == {[k |-> "minInt64", v |-> 0], [k |-> "maxInt64", v |-> 0], Dur(0)}
ToDuration(x) ==
    IF x.k = "fin"
    THEN {Dur(IF x.n >= 0 THEN x.n \div x.d ELSE -((-x.n) \div x.d))}
    ELSE OutOfRange

\* strconv.Atoi, its error dropped (line 596-597)
Atoi(str) == IF AllDigits(str) THEN DecimalValue(str) ELSE 0

\* strconv.ParseFloat, its error dropped (line 598), on digits "." digits
ParseFloat(str) ==
    LET parts == Split(str, ".")
    IN  IF Len(parts) = 1 /\ AllDigits(parts[1])
        THEN FromInt(DecimalValue(parts[1]))
        ELSE IF Len(parts) = 2 /\ AllDigits(parts[1]) /\ AllDigits(parts[2])
        THEN Fin(DecimalValue(parts[1]) * PowerOfTen(Len(parts[2]))
                     + DecimalValue(parts[2]),
                 PowerOfTen(Len(parts[2])))
        ELSE FromInt(0)

\* int(x) for a float64 x >= 0 in range
ToInt(x) == x.n \div x.d

\* line 590-601
parseTimestamp_MinutesAsSeconds(ts) ==
    LET parts == Split(ts, ":")
    IN  IF Len(parts) # 3 THEN 0
        ELSE Atoi(parts[1]) * 3600 + Atoi(parts[2]) + ToInt(ParseFloat(parts[3]))
parseTimestamp(ts) ==
    LET parts == Split(ts, ":")
    IN  IF Len(parts) # 3 THEN 0
        ELSE Atoi(parts[1]) * 3600 + Atoi(parts[2]) * 60 + ToInt(ParseFloat(parts[3]))

\* the out_time values, the durations (video.Length) and the wall-clock
\* seconds since the start that the lines are drawn from
OutTimes == [h : 0..MaxHours, m : {0, 10, 59}, s : {0, 30}, f : {0, 99}]
Durations == {0, 600, 1200}
ElapsedSeconds == {0, 5}

InitParse ==
    /\ IdleLocal
    /\ IdleDist
    /\ IdleJobs
    /\ IdleHandlers
    /\ IdleRest
    /\ outTime \in OutTimes
    /\ timestamp = FormatTimestamp(outTime)
    /\ totalDuration \in Durations
    /\ elapsed \in ElapsedSeconds
    /\ stored = {}
    /\ divisions = {}

\* line 532-550: the line matches; the record is computed and stored
ParseProgressLine ==
    /\ stored = {}
    /\ LET currentTime == parseTimestamp(timestamp)
           progress == FMul(FDiv(FromInt(currentTime), FromInt(totalDuration)),
                            FromInt(100))
           factor == FSub(FDiv(FromInt(100), progress), FromInt(1))
           remaining == FMul(FromInt(elapsed), factor)
       IN  /\ \E r \in ToDuration(remaining) :
                 stored' = {[Percentage |-> progress,
                             Elapsed |-> Dur(elapsed),
                             Remaining |-> r]}
           /\ divisions' = {[line |-> 537, by |-> FromInt(totalDuration)],
                            [line |-> 541, by |-> progress]}
    /\ UNCHANGED <<outTime, timestamp, totalDuration, elapsed>>
    /\ UNCHANGED nonParse

NextParse == ParseProgressLine

SpecParse == InitParse /\ [][NextParse]_vars

(***************************************************************************)
(* Claims on parseProgress                                                 *)
(***************************************************************************)

\* C15: every record stored in the progress table has a percentage that is a
\* number between 0 and 100.
C15_PercentageWithinRange ==
    \A p \in stored :
        /\ p.Percentage.k = "fin"
        /\ p.Percentage.n >= 0
        /\ p.Percentage.n <= 100 * p.Percentage.d

\* C16: for a record whose total duration is zero no division by the
\* duration is executed and no record is stored.
C16_NoDivisionByZeroDuration ==
    totalDuration = 0 =>
        /\ stored = {}
        /\ \A v \in divisions : v.line # 537

\* C17: for a sample whose percentage is not above zero no division by the
\* percentage is executed.
C17_RemainingGuarded ==
    \A p \in stored :
        (IsZero(p.Percentage) \/ IsNegative(p.Percentage))
            => \A v \in divisions : v.line # 541

\* C18: for a duration D > 0 the stored percentage is
\* (3600*H + 60*MM + SS) / D * 100 for the out_time H:MM:SS.ss of the line.
C18_PercentageOfTimestamp ==
    \A p \in stored :
        totalDuration > 0 =>
            /\ p.Percentage.k = "fin"
            /\ p.Percentage.n * totalDuration
                   = (3600 * outTime.h + 60 * outTime.m + outTime.s) * 100
                         * p.Percentage.d

\* the line out_time=00:10:00.00 of a record of 1200 seconds is stored as 50
C18_Witness ==
    /\ timestamp = <<"0", "0", ":", "1", "0", ":", "0", "0", ".", "0", "0">>
    /\ totalDuration = 1200
    /\ \E p \in stored : p.Percentage.k = "fin" /\ p.Percentage.n = 50 * p.Percentage.d

(***************************************************************************)
(* Concurrent /callback handlers: apitranscode.go 60-91. net/http serves   *)
(* every request in a goroutine of its own; the handler takes no lock, so  *)
(* the *numVids-- of line 75 is a load and a store that other handlers     *)
(* can come between. (SpecDist takes a handler in one step.)               *)
(***************************************************************************)

Handlers == 1..MaxHandlers

\* the dispatcher at the state InitDist describes, no request being served
InitCallbacks ==
    /\ InitDist
    /\ dPc = "videos"

\* line 75: the load of *numVids
HandlerLoad(h) ==
    /\ hPc[h] = "idle"
    /\ hTmp' = [hTmp EXCEPT ![h] = numVids]
    /\ hPc' = [hPc EXCEPT ![h] = "loaded"]
    /\ UNCHANGED <<hName, hReply>>
    /\ UNCHANGED dvars
    /\ UNCHANGED <<lvars, jvars, pvars, xvars>>

\* line 68-71: the body does not decode; the handler answers 400 and
\* returns
HandlerReject(h) ==
    /\ hPc[h] = "idle"
    /\ hPc' = [hPc EXCEPT ![h] = "rejected"]
    /\ hReply' = [hReply EXCEPT ![h] = "400"]
    /\ UNCHANGED <<hTmp, hName>>
    /\ UNCHANGED dvars
    /\ UNCHANGED <<lvars, jvars, pvars, xvars>>

Acknowledge_KnownOnly(sems, name) ==
    IF name \in DOMAIN sems THEN "200" ELSE "404"

\* line 89-90: w.WriteHeader(http.StatusOK), after the if of line 78-87
\* whichever branch it took
Acknowledge(sems, name) == "200"

\* line 75: the store of the decremented value; line 78-87: the offer to the
\* semaphore of payload.ServerName; line 90: the answer
HandlerStore(h, name) ==
    /\ hPc[h] = "loaded"
    /\ numVids' = hTmp[h] - 1
    /\ serverSemaphores' = SemaphoresAfterCallback(serverSemaphores, name)
    /\ hPc' = [hPc EXCEPT ![h] = "done"]
    /\ hName' = [hName EXCEPT ![h] = name]
    /\ hReply' = [hReply EXCEPT ![h] = Acknowledge(serverSemaphores, name)]
    /\ UNCHANGED <<servers, nVideos, apiWg, vIdx, dPc, skipped, tasks, foreign,
                   hTmp>>
    /\ UNCHANGED <<lvars, jvars, pvars, xvars>>

NextCallbacks ==
    \/ \E h \in Handlers : HandlerLoad(h)
    \/ \E h \in Handlers : HandlerReject(h)
    \/ \E h \in Handlers, name \in CallbackNames : HandlerStore(h, name)

SpecCallbacks == InitCallbacks /\ [][NextCallbacks]_vars

\* the callbacks whose handler has decremented the counter
Handled == {h \in Handlers : hPc[h] = "done"}

(***************************************************************************)
(* Claims on the callback handlers                                         *)
(***************************************************************************)

\* C20: after n callbacks have been handled the counter is n less than its
\* initial value len(videos).
C20_NoLostDecrement ==
    numVids = nVideos - Cardinality(Handled)

\* the requests the endpoint has answered
Answered == {h \in Handlers : hReply[h] # "none"}

\* C23 as stated: every request the endpoint has answered was answered
\* with the acknowledgement 200.
C23_EveryCallbackAcknowledged ==
    \A h \in Answered : hReply[h] = "200"

\* C23: every request whose body decoded was answered with 200, its
\* server name in the roster or not; a body that did not decode was
\* answered 400; a request still being handled has no answer yet.
C23_DecodedCallbackAcknowledged ==
    /\ \A h \in Handlers : hPc[h] = "done" => hReply[h] = "200"
    /\ \A h \in Handlers : hPc[h] = "rejected" => hReply[h] = "400"
    /\ \A h \in Handlers : hPc[h] \in {"idle", "loaded"} => hReply[h] = "none"

\* one callback naming a server of the roster and one naming a server that
\* is not in it, both acknowledged
C23_Witness ==
    \E g, h \in Handlers :
        /\ hPc[g] = "done" /\ hName[g] \in ServerNames /\ hReply[g] = "200"
        /\ hPc[h] = "done" /\ hName[h] \notin ServerNames /\ hReply[h] = "200"

(***************************************************************************)
(* The directory tree: AddVideo and FilterFiles, deleter.go 63-182, and    *)
(* the selection by directory, IsInSelectedDirectory.                      *)
(* A path is the sequence of its components: << >> is "/", <<"lib", "a">>  *)
(* is "/lib/a". A record is [id, loc]: id stands for its FullFilePath, loc *)
(* is its Location, the directory that holds the file.                     *)
(***************************************************************************)

\* baseDir, the Path of the root node
RootPath == <<"lib">>

\* the directories records lie in
Locations == {<<"lib">>, <<"lib", "a">>, <<"lib", "b">>, <<"lib", "a", "x">>}

\* the directories a selection names
SelectableDirs == Locations \cup {<< >>}

\* the characters of a path component
Spell(name) ==
    CASE name = "lib" -> <<"l", "i", "b">>
      [] name = "lib2" -> <<"l", "i", "b", "2">>
      [] name = "a" -> <<"a">>
      [] name = "b" -> <<"b">>
      [] name = "x" -> <<"x">>
      [] name = ".." -> <<".", ".">>

RECURSIVE Flat(_)
Flat(p) ==
    IF p = << >> THEN << >>
    ELSE Flat(SubSeq(p, 1, Len(p) - 1)) \o <<"/">> \o Spell(p[Len(p)])

\* the string of a path
PathString(p) == IF p = << >> THEN <<"/">> ELSE Flat(p)

\* strings.HasPrefix
HasPrefix(s, prefix) ==
    /\ Len(prefix) <= Len(s)
    /\ SubSeq(s, 1, Len(prefix)) = prefix

\* filepath.Dir of a clean absolute path
Dir(p) == IF p = << >> THEN << >> ELSE SubSeq(p, 1, Len(p) - 1)

\* filepath.Join(p, part) of a clean absolute path and one component
Join(p, part) == IF part = ".." THEN Dir(p) ELSE Append(p, part)

\* number of leading components two paths share
CommonLen(p, q) ==
    CHOOSE c \in 0..Len(p) :
        /\ c <= Len(q)
        /\ SubSeq(p, 1, c) = SubSeq(q, 1, c)
        /\ \A d \in (c + 1)..Len(p) :
               d > Len(q) \/ SubSeq(p, 1, d) # SubSeq(q, 1, d)

\* filepath.Rel(base, targ) split on the separator; "." is << >>
Rel(base, targ) ==
    LET c == CommonLen(base, targ)
    IN  [i \in 1..(Len(base) - c) |-> ".."] \o SubSeq(targ, c + 1, Len(targ))

\* the tree of NewDirectoryNode(baseDir): a root without children or files
NewDirectoryNode == [kc \in {<< >>} |-> << >>]

\* the Path field of the node reached by the chain kc of Children keys
RECURSIVE NodePath(_)
NodePath(kc) ==
    IF kc = << >> THEN RootPath
    ELSE Join(NodePath(SubSeq(kc, 1, Len(kc) - 1)), kc[Len(kc)])

AddVideo_AtRoot(ns, video) ==
    [ns EXCEPT ![<< >>] = Append(@, video)]

\* AddVideo on the root: the nodes along Rel(n.Path, video.Location) are
\* created where missing and the record is appended to the last one
AddVideo(ns, video) ==
    LET parts == Rel(RootPath, video.loc)
        chains == {SubSeq(parts, 1, k) : k \in 0..Len(parts)}
        grown == [kc \in (DOMAIN ns) \cup chains |->
                     IF kc \in DOMAIN ns THEN ns[kc] ELSE << >>]
    IN  [grown EXCEPT ![parts] = Append(@, video)]

\* the keys of n.Children, as chains from the root
Children(ns, kc) ==
    {q \in DOMAIN ns : Len(q) = Len(kc) + 1 /\ SubSeq(q, 1, Len(kc)) = kc}

\* the orders in which a range over a map can visit the keys S
Orders(S) ==
    {o \in [1..Cardinality(S) -> S] :
        \A i, j \in 1..Cardinality(S) : i # j => o[i] # o[j]}

Descends_Always(recursive) == TRUE

\* line 175: the children are visited only in a recursive call
Descends(recursive) == recursive

RECURSIVE FilterFiles(_, _, _, _)
RECURSIVE AppendChildren(_, _, _, _)

\* lines 176-178: the results of the children are appended in the order
\* the range visits them
AppendChildren(ns, acc, order, pass) ==
    IF order = << >> THEN {acc}
    ELSE UNION {AppendChildren(ns, acc \o r, Tail(order), pass) :
                    r \in FilterFiles(ns, Head(order), pass, TRUE)}

\* the values FilterFiles can return on the node kc for the filter that
\* accepts the records whose id is in pass
FilterFiles(ns, kc, pass, recursive) ==
    LET own == SelectSeq(ns[kc], LAMBDA file : file.id \in pass)
    IN  IF Descends(recursive)
        THEN UNION {AppendChildren(ns, own, o, pass) :
                        o \in Orders(Children(ns, kc))}
        ELSE {own}

\* transcoder.IsInSelectedDirectory, transcode.go 321-334
IsInSelectedDirectory(location, selectedDirs, recursive) ==
    \E i \in 1..Len(selectedDirs) :
        IF recursive
        THEN HasPrefix(PathString(location), PathString(selectedDirs[i]))
        ELSE PathString(Dir(location)) = PathString(selectedDirs[i])

\* IsInSelectedDirectory of analyse.go 545-560
AnalyserIsInSelectedDirectory(location, selectedDirs, recursive) ==
    \E i \in 1..Len(selectedDirs) :
        IF recursive
        THEN HasPrefix(PathString(location), PathString(selectedDirs[i]))
        ELSE PathString(location) = PathString(selectedDirs[i])

Packages == {"transcoder", "analyser"}

InitTree ==
    /\ IdleLocal
    /\ IdleDist
    /\ IdleJobs
    /\ IdleParse
    /\ IdleHandlers
    /\ IdleCheckpoint
    /\ IdleLocks
    /\ IdleListener
    /\ IdleUnit
    /\ \E n \in 0..MaxRecords : \E locs \in [1..n -> Locations] :
           tree = [input |-> [i \in 1..n |-> [id |-> i, loc |-> locs[i]]],
                   added |-> 0,
                   nodes |-> NewDirectoryNode,
                   call |-> {}, res1 |-> {}, res2 |-> {}, picked |-> {},
                   baseDir |-> {}]

\* the tree builder hands the next record to AddVideo
AddNext ==
    /\ added < Len(input)
    /\ tree' = [tree EXCEPT !.nodes = AddVideo(nodes, input[added + 1]),
                            !.added = added + 1]
    /\ UNCHANGED nonTree

\* transcode.go 270, analyse.go 66: FilterFiles on the node the user chose
Filter(kc, pass, recursive) ==
    /\ added = Len(input)
    /\ call = {}
    /\ picked = {}
    /\ \E r \in FilterFiles(nodes, kc, pass, recursive) :
           tree' = [tree EXCEPT
                       !.call = {[node |-> kc, pass |-> pass,
                                  recursive |-> recursive]},
                       !.res1 = {r}]
    /\ UNCHANGED nonTree

\* the same call once more on the same tree
FilterAgain ==
    /\ call # {}
    /\ res2 = {}
    /\ \E c \in call : \E r \in FilterFiles(nodes, c.node, c.pass, c.recursive) :
           tree' = [tree EXCEPT !.res2 = {r}]
    /\ UNCHANGED nonTree

\* transcode.go 625, apitranscode.go 171, config.go 232: the records of the
\* store are selected by IsInSelectedDirectory(video.Location, [d], recursive)
Select(d, recursive, pkg) ==
    /\ picked = {}
    /\ call = {}
    /\ tree' = [tree EXCEPT !.picked =
         {[dir |-> d, recursive |-> recursive, by |-> pkg,
           ids |-> {i \in 1..Len(input) :
                      IF pkg = "transcoder"
                      THEN IsInSelectedDirectory(input[i].loc, <<d>>, recursive)
                      ELSE AnalyserIsInSelectedDirectory(input[i].loc, <<d>>,
                                                         recursive)}]}]
    /\ UNCHANGED nonTree

NextTree ==
    \/ AddNext
    \/ \E kc \in DOMAIN nodes, pass \in SUBSET (1..MaxRecords),
          recursive \in BOOLEAN : Filter(kc, pass, recursive)
    \/ FilterAgain
    \/ \E d \in SelectableDirs, recursive \in BOOLEAN, pkg \in Packages :
           Select(d, recursive, pkg)

SpecTree == InitTree /\ [][NextTree]_vars

\* the records in a sequence of records
Range(s) == {s[i] : i \in 1..Len(s)}

\* the nodes whose Files hold the record
Holders(video) == {kc \in DOMAIN nodes : video \in Range(nodes[kc])}

\* the input records that lie in the directory d
LyingIn(d) == {i \in 1..Len(input) : input[i].loc = d}

(***************************************************************************)
(* Claims on the directory tree                                            *)
(***************************************************************************)

\* C27: every record AddVideo has placed is in the Files of exactly one
\* node, once, and that node's Path is the record's containing directory;
\* FilterFiles with a filter that accepts everything, called recursively on
\* the root, returns every input record exactly once.
C27_RecordInItsDirectoryNode ==
    /\ \A i \in 1..added :
           /\ \E kc \in DOMAIN nodes :
                  /\ Holders(input[i]) = {kc}
                  /\ NodePath(kc) = input[i].loc
                  /\ Cardinality({k \in 1..Len(nodes[kc]) :
                                     nodes[kc][k] = input[i]}) = 1
    /\ \A i \in (added + 1)..Len(input) : Holders(input[i]) = {}
    /\ \A c \in call, r \in res1 :
           (c.node = << >> /\ c.recursive /\ c.pass = 1..MaxRecords)
               => Range(r) = Range(input) /\ Len(r) = Len(input)

\* three records in three directories, one of them two levels below the
\* root, all returned by the recursive call on the root
C27_Witness ==
    /\ added = 3
    /\ {input[i].loc : i \in 1..3} =
           {<<"lib">>, <<"lib", "b">>, <<"lib", "a", "x">>}
    /\ \E c \in call, r \in res1 :
           c.node = << >> /\ c.recursive /\ c.pass = 1..MaxRecords /\ Len(r) = 3

\* C28: a non-recursive FilterFiles returns, in the node's order, the
\* records of that node's own Files that pass the filter and nothing from
\* a descendant; it is the empty sequence when none passes.
C28_NonRecursiveOwnFilesOnly ==
    \A c \in call, r \in res1 :
        ~c.recursive =>
            /\ r = SelectSeq(nodes[c.node], LAMBDA file : file.id \in c.pass)
            /\ \A k \in 1..Len(r) : NodePath(c.node) = r[k].loc
            /\ ((\A k \in 1..Len(nodes[c.node]) :
                    nodes[c.node][k].id \notin c.pass) => r = << >>)

\* a non-recursive call on the root /lib, whose records all lie in /lib/a
\* and /lib/b, returned nothing
C28_Witness ==
    /\ added = 3
    /\ {input[i].loc : i \in 1..3} = {<<"lib", "a">>, <<"lib", "b">>}
    /\ \E c \in call :
           c.node = << >> /\ ~c.recursive /\ c.pass = 1..MaxRecords
    /\ res1 = {<< >>}

\* C29: IsInSelectedDirectory(location, [d], false) is true exactly for
\* the records whose containing directory is d.
C29_NonRecursiveSelectsOwnDirectory ==
    \A s \in picked : ~s.recursive => s.ids = LyingIn(s.dir)

\* C30: the same FilterFiles call on the same tree returns the same
\* sequence again, and a recursive call returns its records in input order.
C30_FilterFilesDeterministic ==
    /\ \A r1 \in res1, r2 \in res2 : r1 = r2
    /\ \A c \in call, r \in res1 :
           c.recursive => \A k \in 1..(Len(r) - 1) : r[k].id < r[k + 1].id

(***************************************************************************)
(* Background mode: StartInteractiveTranscoding, transcode.go 108-192, and *)
(* the os.Remove that ends startTranscoding, line 228. The launching       *)
(* invocation writes transcode_config.json and starts the detached         *)
(* process, which opens and decodes the file, runs and removes it. Other   *)
(* runs in the same working directory use the same file name.              *)
(***************************************************************************)

\* the values of TranscodeConfig, transcode.go 94-100
Configs ==
    {[SelectedFiles |-> f, OutputResolution |-> "720p", OutputBitrate |-> 2000,
      MaxConcurrent |-> 1, AutoDelete |-> d] :
        f \in {<<"a.mkv">>, <<"a.mkv", "b.mkv">>}, d \in BOOLEAN}

Others == 1..MaxOthers

\* a file holding the encoding of cfg, whole or cut short
FileOf(cfg, whole) == [params |-> cfg, whole |-> whole]

\* json.NewDecoder(configFile).Decode(&config): a whole encoding gives the
\* value back, one cut short is an error
Decode(file) ==
    IF file.whole THEN [err |-> FALSE, value |-> file.params]
    ELSE [err |-> TRUE, value |-> << >>]

AfterLoadError_Runs == "run"

\* lines 126-127, 131-132: after logging the error the detached process
\* returns from StartInteractiveTranscoding
AfterLoadError == "ended"

InitCheckpoint ==
    /\ IdleLocal
    /\ IdleDist
    /\ IdleJobs
    /\ IdleParse
    /\ IdleHandlers
    /\ IdleTree
    /\ IdleLocks
    /\ IdleListener
    /\ IdleUnit
    /\ \E cfg \in Configs, left \in {{}} \cup {{FileOf(c, TRUE)} : c \in Configs} :
           bg = [config |-> cfg, ckpt |-> left, bgPc |-> "create",
                 childPc |-> "none", opened |-> {}, reads |-> 0,
                 childConfig |-> {}, childErr |-> "none", launched |-> 0,
                 otherPc |-> [o \in Others |-> "idle"]]

\* line 160: os.Create truncates the file or creates it empty; on an error
\* the invocation returns
ParentCreate(ok) ==
    /\ bgPc = "create"
    /\ bg' = IF ok
             THEN [bg EXCEPT !.ckpt = {FileOf(config, FALSE)}, !.bgPc = "encode"]
             ELSE [bg EXCEPT !.bgPc = "failed"]
    /\ UNCHANGED nonCheckpoint

\* line 165: Encode writes the configuration; its error is not looked at,
\* so a write that failed part way is followed by the same steps
ParentEncode(ok) ==
    /\ bgPc = "encode"
    /\ bg' = [bg EXCEPT
                 !.ckpt = IF ckpt = {} THEN ckpt ELSE {FileOf(config, ok)},
                 !.bgPc = "close"]
    /\ UNCHANGED nonCheckpoint

\* line 166: configFile.Close()
ParentClose ==
    /\ bgPc = "close"
    /\ bg' = [bg EXCEPT !.bgPc = "start"]
    /\ UNCHANGED nonCheckpoint

\* lines 169-185: cmd.Start() starts the detached process, or fails
ParentStart(ok) ==
    /\ bgPc = "start"
    /\ bg' = IF ok
             THEN [bg EXCEPT !.bgPc = "started", !.childPc = "open"]
             ELSE [bg EXCEPT !.bgPc = "failed"]
    /\ UNCHANGED nonCheckpoint

\* lines 124-128: os.Open("transcode_config.json")
ChildOpen ==
    /\ childPc = "open"
    /\ bg' = IF ckpt = {}
             THEN [bg EXCEPT !.childErr = "open", !.childPc = AfterLoadError]
             ELSE [bg EXCEPT !.childPc = "decode", !.opened = ckpt]
    /\ UNCHANGED nonCheckpoint

\* lines 129-134: Decode reads through the handle: what the file held when
\* it was opened, or what a later os.Create and Encode made of it
ChildDecode ==
    /\ childPc = "decode"
    /\ \E file \in opened \cup ckpt :
           LET d == Decode(file)
           IN  bg' = IF d.err
                     THEN [bg EXCEPT !.reads = @ + 1,
                                     !.childErr = "decode",
                                     !.childPc = AfterLoadError]
                     ELSE [bg EXCEPT !.reads = @ + 1,
                                     !.childPc = "run",
                                     !.childConfig = {d.value}]
    /\ UNCHANGED nonCheckpoint

\* line 137 and lines 207-224: startTranscoding launches one job for each
\* selected file of the configuration it was given
ChildRun ==
    /\ childPc = "run"
    /\ bg' = [bg EXCEPT
                 !.launched =
                     IF childConfig = {} THEN 0
                     ELSE Len((CHOOSE c \in childConfig : TRUE).SelectedFiles),
                 !.childPc = "running"]
    /\ UNCHANGED nonCheckpoint

\* line 226: wg.Wait() returns, every job having terminated
ChildReturn ==
    /\ childPc = "running"
    /\ bg' = [bg EXCEPT !.childPc = "remove"]
    /\ UNCHANGED nonCheckpoint

\* line 228: os.Remove("transcode_config.json")
ChildRemove ==
    /\ childPc = "remove"
    /\ bg' = [bg EXCEPT !.ckpt = {}, !.childPc = "done"]
    /\ UNCHANGED nonCheckpoint

\* line 228 in another run, foreground or detached: every startTranscoding
\* ends with os.Remove("transcode_config.json")
OtherRemove(o) ==
    /\ otherPc[o] \in {"idle", "encoded"}
    /\ bg' = [bg EXCEPT !.ckpt = {}, !.otherPc[o] = "removed"]
    /\ UNCHANGED nonCheckpoint

\* line 160 in another background launch
OtherCreate(o, cfg) ==
    /\ otherPc[o] = "idle"
    /\ bg' = [bg EXCEPT !.ckpt = {FileOf(cfg, FALSE)},
                        !.otherPc[o] = "created"]
    /\ UNCHANGED nonCheckpoint

\* line 165 in another background launch
OtherEncode(o, cfg, ok) ==
    /\ otherPc[o] = "created"
    /\ bg' = [bg EXCEPT
                 !.ckpt = IF ckpt = {} THEN ckpt ELSE {FileOf(cfg, ok)},
                 !.otherPc[o] = "encoded"]
    /\ UNCHANGED nonCheckpoint

NextCheckpoint ==
    \/ \E ok \in BOOLEAN : ParentCreate(ok)
    \/ \E ok \in BOOLEAN : ParentEncode(ok)
    \/ ParentClose
    \/ \E ok \in BOOLEAN : ParentStart(ok)
    \/ ChildOpen
    \/ ChildDecode
    \/ ChildRun
    \/ ChildReturn
    \/ ChildRemove
    \/ \E o \in Others : OtherRemove(o)
    \/ \E o \in Others, cfg \in Configs : OtherCreate(o, cfg)
    \/ \E o \in Others, cfg \in Configs, ok \in BOOLEAN : OtherEncode(o, cfg, ok)

SpecCheckpoint == InitCheckpoint /\ [][NextCheckpoint]_vars

(***************************************************************************)
(* Claims on background mode                                               *)
(***************************************************************************)

\* C24: when the detached process is started the checkpoint holds the
\* whole encoding of the launcher's configuration; the detached process
\* reads it at most once; and the file, once written, is removed only by
\* the detached process after its run has returned.
C24_CheckpointLifecycle ==
    [][ /\ (childPc = "none" /\ childPc' = "open")
            => ckpt = {FileOf(config, TRUE)}
        /\ reads' <= 1
        /\ (bgPc \in {"close", "start", "started"} /\ ckpt # {} /\ ckpt' = {})
            => childPc = "remove"
      ]_vars

\* C25: the detached process runs with exactly the configuration the
\* launching invocation persisted, the file keeping that configuration from
\* its write to its read.
C25_RunsWithPersistedConfig ==
    /\ childPc \in {"run", "running", "remove", "done"}
           => childConfig = {config}
    /\ (bgPc \in {"close", "start", "started"} /\ reads = 0 /\ childErr = "none")
           => \E file \in ckpt : file.params = config

\* C26: a detached process that could not open or could not decode the
\* checkpoint has ended without launching a job.
C26_LoadErrorLaunchesNothing ==
    childErr # "none" => childPc = "ended" /\ launched = 0 /\ childConfig = {}

\* the detached process found the file cut short, logged the decode error
\* and ended
C26_Witness ==
    /\ childErr = "decode"
    /\ childPc = "ended"
    /\ reads = 1
    /\ launched = 0

(***************************************************************************)
(* The locks of a finishing job: TranscodeAndRenameVideo from the return   *)
(* of cmd.Wait on, transcode.go 443-498 (APITranscode 941-1008 takes the   *)
(* same steps), with scanner.ProcessFile, scanner.go 156-203, in place of  *)
(* its call.                                                               *)
(***************************************************************************)

Tasks == 1..MaxTasks

Mutexes == {"progressMutex", "spaceSavedMutex", "renamedFilesMutex", "mu"}

\* the steps in program order: a Lock, an Unlock, or a call the job waits
\* on (a subprocess, the store, the network); a call that one branch of
\* the code does not make is skippable
JobTail ==
    << [op |-> "lock", on |-> "progressMutex", skippable |-> FALSE],    \* 443
       [op |-> "unlock", on |-> "progressMutex", skippable |-> FALSE],  \* 445
       [op |-> "lock", on |-> "spaceSavedMutex", skippable |-> FALSE],  \* 460
       [op |-> "unlock", on |-> "spaceSavedMutex", skippable |-> FALSE],\* 462
       [op |-> "lock", on |-> "renamedFilesMutex", skippable |-> FALSE],\* 465
       [op |-> "call", on |-> "ffprobe", skippable |-> FALSE],  \* scanner 158
       [op |-> "lock", on |-> "mu", skippable |-> FALSE],       \* scanner 160
       [op |-> "call", on |-> "store", skippable |-> FALSE],    \* scanner 178
       [op |-> "call", on |-> "store", skippable |-> TRUE], \* scanner 192, 197
       [op |-> "unlock", on |-> "mu", skippable |-> FALSE],     \* scanner 161
       [op |-> "unlock", on |-> "renamedFilesMutex", skippable |-> FALSE], \* 467
       [op |-> "call", on |-> "store", skippable |-> FALSE],            \* 484
       [op |-> "lock", on |-> "spaceSavedMutex", skippable |-> FALSE],  \* 613
       [op |-> "unlock", on |-> "spaceSavedMutex", skippable |-> FALSE],\* 614
       [op |-> "call", on |-> "network", skippable |-> FALSE] >>        \* 498

\* the step job t is at; a job past the last step has returned
Returned(t) == tailPc[t] > Len(JobTail)

InitLocks ==
    /\ IdleLocal
    /\ IdleDist
    /\ IdleJobs
    /\ IdleParse
    /\ IdleHandlers
    /\ IdleTree
    /\ IdleCheckpoint
    /\ IdleListener
    /\ IdleUnit
    /\ lk = [tailPc |-> [t \in Tasks |-> 1],
             inCall |-> [t \in Tasks |-> FALSE],
             locks |-> [m \in Mutexes |-> 0]]

\* m.Lock(): the job goes on when the mutex is free
LockStep(t) ==
    /\ ~Returned(t)
    /\ JobTail[tailPc[t]].op = "lock"
    /\ locks[JobTail[tailPc[t]].on] = 0
    /\ lk' = [lk EXCEPT !.locks[JobTail[tailPc[t]].on] = t,
                        !.tailPc[t] = @ + 1]
    /\ UNCHANGED nonLocks

\* m.Unlock()
UnlockStep(t) ==
    /\ ~Returned(t)
    /\ JobTail[tailPc[t]].op = "unlock"
    /\ lk' = [lk EXCEPT !.locks[JobTail[tailPc[t]].on] = 0,
                        !.tailPc[t] = @ + 1]
    /\ UNCHANGED nonLocks

\* the job makes the call of its step and waits for it
CallStep(t) ==
    /\ ~Returned(t)
    /\ JobTail[tailPc[t]].op = "call"
    /\ ~inCall[t]
    /\ lk' = [lk EXCEPT !.inCall[t] = TRUE]
    /\ UNCHANGED nonLocks

\* the call returns
ReturnStep(t) ==
    /\ ~Returned(t)
    /\ inCall[t]
    /\ lk' = [lk EXCEPT !.inCall[t] = FALSE, !.tailPc[t] = @ + 1]
    /\ UNCHANGED nonLocks

\* scanner.go 184-186: the record is in the store with the same size and
\* ProcessFile returns without writing it
SkipStep(t) ==
    /\ ~Returned(t)
    /\ JobTail[tailPc[t]].skippable
    /\ ~inCall[t]
    /\ lk' = [lk EXCEPT !.tailPc[t] = @ + 1]
    /\ UNCHANGED nonLocks

NextLocks ==
    \/ \E t \in Tasks : LockStep(t)
    \/ \E t \in Tasks : UnlockStep(t)
    \/ \E t \in Tasks : CallStep(t)
    \/ \E t \in Tasks : ReturnStep(t)
    \/ \E t \in Tasks : SkipStep(t)

SpecLocks == InitLocks /\ [][NextLocks]_vars

\* the mutexes job t holds
Held(t) == {m \in Mutexes : locks[m] = t}

(***************************************************************************)
(* Claims on the locks                                                     *)
(***************************************************************************)

\* C21: a job that waits on a subprocess, a network call or a store
\* operation holds none of the four mutexes.
C21_NoLockAcrossBlockingCall ==
    \A t \in Tasks : inCall[t] => Held(t) = {}

(***************************************************************************)
(* The dispatcher together with its callback listener. startCallbackServer *)
(* (apitranscode.go 60-101) registers the handler, starts a goroutine that *)
(* calls http.ListenAndServe(":8080", nil) and returns at once; the        *)
(* dispatch loop of StartAPITranscoding (line 170) starts right after the  *)
(* call of line 164. InitDist is the state at that point: the goroutine    *)
(* exists, the port is not bound yet.                                      *)
(***************************************************************************)

\* line 95: ListenAndServe has bound the port and accepts connections
ListenerBind ==
    /\ dPc # "idle"
    /\ listener = "unbound"
    /\ listener' = "listening"
    /\ UNCHANGED nonListener

\* line 95-97: ListenAndServe returns an error (the port is in use); the
\* goroutine prints it and ends, the dispatcher is not told
ListenerFail ==
    /\ dPc # "idle"
    /\ listener = "unbound"
    /\ listener' = "failed"
    /\ UNCHANGED nonListener

\* the callback of a job reaches the handler
ServedCallback(t) ==
    /\ listener = "listening"
    /\ JobCallback(t)

\* a POST to /callback of any other client reaches the handler
ServedForeign(name) ==
    /\ listener = "listening"
    /\ ForeignCallback(name)

\* the callback of a job finds nobody listening: the worker's POST fails
\* and the callback is gone
RefusedCallback(t) ==
    /\ listener # "listening"
    /\ t \in TaskSet
    /\ t.job = "awaiting"
    /\ tasks' = Replace(t, [t EXCEPT !.job = "none"])
    /\ UNCHANGED <<nVideos, serverSemaphores, numVids, apiWg, vIdx, dPc,
                   skipped, foreign>>
    /\ UNCHANGED <<nonDist, servers>>

NextListen ==
    \/ ListenerBind
    \/ ListenerFail
    \/ \E sel \in BOOLEAN : ScanVideo(sel)
    \/ EndVideos
    \/ DispatchReturn
    \/ \E t \in TaskSet, reply \in Replies : SubmitReply(t, reply)
    \/ \E t \in TaskSet : BlockedSend(t)
    \/ \E t \in TaskSet : ServedCallback(t)
    \/ \E t \in TaskSet : RefusedCallback(t)
    \/ \E n \in CallbackNames : ServedForeign(n)

SpecListen == InitDist /\ [][NextListen]_vars

(***************************************************************************)
(* Claims on the callback listener                                         *)
(***************************************************************************)

\* C22: a worker has received and accepted a submission only when the
\* callback listener is accepting connections.
C22_ListenerReadyBeforeSubmission ==
    (\E t \in TaskSet : t.job = "awaiting") => listener = "listening"

(***************************************************************************)
(* The common base directory, FindCommonBaseDir (transcode.go 279-300;     *)
(* findCommonPrefix, analyse.go 522-543, is the same text), and the        *)
(* selection by directory over records that lie anywhere.                  *)
(***************************************************************************)

\* the directories the records of a store lie in
Directories == Locations \cup {<<"lib2">>}

\* the file name of a record
FileNames == <<"v1.mkv", "v2.mkv", "v3.mkv", "v4.mkv", "v5.mkv">>

\* video.FullFilePath: scanner.go 164-166 sets Location to its directory
FullFilePath(video) == Append(video.loc, FileNames[video.id])

\* lines 290-296: the candidate moves up until the string of videoDir has
\* the string of the candidate as a prefix; reaching "/" returns at once
RECURSIVE NextBase(_, _)
NextBase(videoDir, candidate) ==
    IF HasPrefix(PathString(videoDir), PathString(candidate))
    THEN [returns |-> FALSE, dir |-> candidate]
    ELSE LET up == Dir(candidate)
         IN  IF PathString(up) = <<"/">>
             THEN [returns |-> TRUE, dir |-> up]
             ELSE NextBase(videoDir, up)

\* lines 288-297: the range loop from the record at position k on
RECURSIVE BaseFrom(_, _, _)
BaseFrom(videos, k, candidate) ==
    IF k > Len(videos) THEN candidate
    ELSE LET n == NextBase(Dir(FullFilePath(videos[k])), candidate)
         IN  IF n.returns THEN n.dir ELSE BaseFrom(videos, k + 1, n.dir)

FindCommonBaseDir(videos) ==
    IF Len(videos) = 0 THEN << >>
    ELSE BaseFrom(videos, 1, Dir(FullFilePath(videos[1])))

InitDirs ==
    /\ IdleLocal
    /\ IdleDist
    /\ IdleJobs
    /\ IdleParse
    /\ IdleHandlers
    /\ IdleCheckpoint
    /\ IdleLocks
    /\ IdleListener
    /\ IdleUnit
    /\ \E n \in 0..MaxRecords : \E locs \in [1..n -> Directories] :
           tree = [input |-> [i \in 1..n |-> [id |-> i, loc |-> locs[i]]],
                   added |-> 0,
                   nodes |-> NewDirectoryNode,
                   call |-> {}, res1 |-> {}, res2 |-> {}, picked |-> {},
                   baseDir |-> {}]

\* the base directory of the records of the store is computed
FindBase ==
    /\ baseDir = {}
    /\ tree' = [tree EXCEPT !.baseDir = {FindCommonBaseDir(input)}]
    /\ UNCHANGED nonTree

NextDirs ==
    \/ FindBase
    \/ \E d \in SelectableDirs, recursive \in BOOLEAN, pkg \in Packages :
           Select(d, recursive, pkg)

SpecDirs == InitDirs /\ [][NextDirs]_vars

\* directory p is q or an ancestor of q
IsPrefixOf(p, q) == Len(p) <= Len(q) /\ SubSeq(q, 1, Len(p)) = p

\* the input records that lie in d or below it
LyingUnder(d) == {i \in 1..Len(input) : IsPrefixOf(d, input[i].loc)}

(***************************************************************************)
(* Claims on the base directory and the recursive selection                *)
(***************************************************************************)

\* C31: for a non-empty store the directory FindCommonBaseDir returns is
\* the directory of every record or an ancestor of it, and it is "/" when
\* the records have no other common ancestor.
C31_BaseIsCommonAncestor ==
    \A b \in baseDir :
        Len(input) > 0 =>
            /\ \A i \in 1..Len(input) : IsPrefixOf(b, input[i].loc)
            /\ (\A i \in 1..Len(input) :
                    CommonLen(input[1].loc, input[i].loc) = 0) => b = << >>

\* C37: a recursive selection of d picks exactly the records that lie in d
\* or in a directory below d.
C37_RecursiveSelectsDescendants ==
    \A s \in picked : s.recursive => s.ids = LyingUnder(s.dir)

(***************************************************************************)
(* Navigation of the directory index. displayDirectoryAndGetSelection      *)
(* (transcode.go 708-776) walks DirectoryNodes and calls itself for every  *)
(* move; utils.DisplayDirectoryTree (types.go 203-300) keeps currentPath   *)
(* in a loop. nav is the navigation: which of the two it is, the root of   *)
(* the index, the current directory, how it has ended, the operator's last *)
(* input.                                                                  *)
(***************************************************************************)

nav == unit

\* every other part of the model is idle
IdleButUnit ==
    /\ IdleLocal
    /\ IdleDist
    /\ IdleJobs
    /\ IdleParse
    /\ IdleHandlers
    /\ IdleTree
    /\ IdleCheckpoint
    /\ IdleLocks
    /\ IdleListener

\* the directories an index rooted at b holds
IndexDirs(b) == {d \in Locations \cup {<< >>} : Len(b) <= Len(d) /\ SubSeq(d, 1, Len(b)) = b}

\* the roots an index can have
IndexRoots == {<< >>, <<"lib">>, <<"lib", "a">>}

\* what the operator can type
NavInputs == {"q", "0", "1", "2", "3", "4", "5", "x"}

\* strconv.Atoi of the input
ChoiceOf(in) ==
    CASE in = "0" -> [err |-> FALSE, value |-> 0]
      [] in = "1" -> [err |-> FALSE, value |-> 1]
      [] in = "2" -> [err |-> FALSE, value |-> 2]
      [] in = "3" -> [err |-> FALSE, value |-> 3]
      [] in = "4" -> [err |-> FALSE, value |-> 4]
      [] in = "5" -> [err |-> FALSE, value |-> 5]
      [] OTHER -> [err |-> TRUE, value |-> 0]

\* the order sort.Strings gives the directory names
NameRank(name) ==
    CASE name = "a" -> 1
      [] name = "b" -> 2
      [] name = "lib" -> 3
      [] name = "lib2" -> 4
      [] name = "x" -> 5

\* the directories directly below cur in the index rooted at b
SubDirsOf(b, cur) ==
    {d \in IndexDirs(b) : Len(d) = Len(cur) + 1 /\ SubSeq(d, 1, Len(cur)) = cur}

\* transcode.go 716-721: the names of tree.Children, sorted
SortedSubDirs(b, cur) ==
    CHOOSE o \in Orders(SubDirsOf(b, cur)) :
        \A i, j \in 1..Len(o) :
            i < j => NameRank(o[i][Len(o[i])]) < NameRank(o[j][Len(o[j])])

\* GetSubDirectory on the root of a tree built anew, deleter.go 123-149:
\* the node at path, or nothing when a part of Rel(n.Path, path) is no child
GetSubDirectory(b, path) ==
    IF path = b THEN {b}
    ELSE LET parts == Rel(b, path)
         IN  IF \A k \in 1..Len(parts) :
                    (b \o SubSeq(parts, 1, k)) \in IndexDirs(b)
             THEN {b \o parts}
             ELSE {}

InitNav ==
    /\ IdleButUnit
    /\ \E i \in {"node", "path"}, b \in IndexRoots :
           unit = [impl |-> i, base |-> b, cur |-> b, outcome |-> "navigating",
                   recursive |-> FALSE, last |-> ""]

\* transcode.go 763-775: the input taken as the number of a subdirectory
NodeEnter(in) ==
    LET c == ChoiceOf(in)
        subIdx == IF nav.cur = << >> THEN c.value - 3 ELSE c.value - 4
        subdirs == SortedSubDirs(nav.base, nav.cur)
    IN  IF ~c.err /\ subIdx >= 0 /\ subIdx < Len(subdirs)
        THEN [nav EXCEPT !.cur = subdirs[subIdx + 1], !.last = in]
        ELSE [nav EXCEPT !.outcome = "selected", !.recursive = FALSE,
                         !.last = in]

\* one call of displayDirectoryAndGetSelection with the operator's input;
\* built tells whether db.BuildDirectoryTree succeeded
NodeStep(in, built) ==
    /\ nav.impl = "node"
    /\ nav.outcome = "navigating"
    /\ unit' =
         IF in = "q" THEN [nav EXCEPT !.outcome = "quit", !.last = in]
         ELSE IF in = "1"
         THEN [nav EXCEPT !.outcome = "selected", !.recursive = FALSE,
                          !.last = in]
         ELSE IF in = "2"
         THEN [nav EXCEPT !.outcome = "selected", !.recursive = TRUE,
                          !.last = in]
         ELSE IF in = "3" /\ nav.cur # << >>
         THEN IF ~built
              THEN [nav EXCEPT !.outcome = "selected", !.recursive = FALSE,
                               !.last = in]
              ELSE LET parent == GetSubDirectory(nav.base, Dir(nav.cur))
                   IN  IF parent # {}
                       THEN [nav EXCEPT !.cur = CHOOSE d \in parent : TRUE,
                                        !.last = in]
                       ELSE NodeEnter(in)
         ELSE NodeEnter(in)
    /\ UNCHANGED nonUnit

\* types.go 211-219: TrimPrefix(currentPath, baseDir) without its leading
\* separator, looked up in the tree; a path that does not start with
\* baseDir is looked up whole
SubTreeFound(b, cur) ==
    IF Len(b) <= Len(cur) /\ SubSeq(cur, 1, Len(b)) = b
    THEN cur \in IndexDirs(b)
    ELSE (b \o cur) \in IndexDirs(b)

\* one iteration of the loop of DisplayDirectoryTree with the operator's
\* input; the range over the map subTree lists its keys in any order, so
\* a number enters any one of the subdirectories
PathStep(in, child) ==
    /\ nav.impl = "path"
    /\ nav.outcome = "navigating"
    /\ LET c == ChoiceOf(in)
           parentPath == Dir(nav.cur)
           subDirs == SubDirsOf(nav.base, IF nav.cur \in IndexDirs(nav.base)
                                          THEN nav.cur ELSE nav.base)
       IN  unit' =
             IF ~SubTreeFound(nav.base, nav.cur)
             THEN [nav EXCEPT !.outcome = "error", !.last = in]
             ELSE IF in = "q"
             THEN [nav EXCEPT !.outcome = "quit", !.last = in]
             ELSE IF c.err THEN [nav EXCEPT !.last = in]
             ELSE IF c.value = 0
             THEN [nav EXCEPT !.outcome = "selected", !.recursive = FALSE,
                              !.last = in]
             ELSE IF c.value = 1
             THEN [nav EXCEPT !.outcome = "selected", !.recursive = TRUE,
                              !.last = in]
             ELSE IF c.value = 2
             THEN IF parentPath = nav.base \/ parentPath = nav.cur
                  THEN [nav EXCEPT !.cur = nav.base, !.last = in]
                  ELSE [nav EXCEPT !.cur = parentPath, !.last = in]
             ELSE IF c.value - 3 < Cardinality(subDirs) /\ child \in subDirs
             THEN [nav EXCEPT !.cur = Join(nav.cur, child[Len(child)]),
                              !.last = in]
             ELSE [nav EXCEPT !.last = in]
    /\ UNCHANGED nonUnit

NextNav ==
    \/ \E in \in NavInputs, built \in BOOLEAN : NodeStep(in, built)
    \/ \E in \in NavInputs, child \in Locations : PathStep(in, child)

SpecNav == InitNav /\ [][NextNav]_vars

\* the input that asks for the parent directory: "[3] Go up one directory"
\* is offered unless the node's Path is "/"; "[2] Go up a level" always
GoUp(n) ==
    IF n.impl = "path" THEN "2"
    ELSE IF n.cur = << >> THEN "none" ELSE "3"

(***************************************************************************)
(* Claims on the navigation                                                *)
(***************************************************************************)

\* C32: when the navigation is at the root of the index and the operator
\* asks for the parent, the current directory stays the root and the
\* navigation goes on: it returns no selection and does not end.
C32_UpAtRootIsNoOp ==
    [][ (nav.outcome = "navigating" /\ nav.cur = nav.base
         /\ nav'.last = GoUp(nav))
            => (nav'.cur = nav.cur /\ nav'.outcome = "navigating") ]_vars

(***************************************************************************)
(* The dispatcher with one worker more in its roster than SpecDist has,    *)
(* so that a record can find two workers with a credit.                    *)
(***************************************************************************)

InitRoster ==
    /\ IdleLocal
    /\ IdleJobs
    /\ IdleParse
    /\ IdleHandlers
    /\ IdleRest
    /\ servers = RosterPrefix(NumServers + 1)
    /\ nVideos \in 0..MaxVideos
    /\ serverSemaphores = [n \in ServerNames |-> Concurrent(n)]
    /\ numVids = nVideos
    /\ apiWg = 0
    /\ vIdx = 1
    /\ dPc = "videos"
    /\ skipped = 0
    /\ tasks = EmptyBag
    /\ foreign = 0

SpecRoster == InitRoster /\ [][NextDist]_vars

\* the workers whose channel has one token less after the step
CreditsTaken ==
    {n \in ServerNames : serverSemaphores'[n] < serverSemaphores[n]}

(***************************************************************************)
(* Claims on the roster scan                                               *)
(***************************************************************************)

\* C33: the step that considers one record starts at most one submission
\* and takes a credit from at most one worker.
C33_OneWorkerPerRecord ==
    [][ vIdx' = vIdx + 1
           => (apiWg' <= apiWg + 1 /\ Cardinality(CreditsTaken) <= 1) ]_vars

(***************************************************************************)
(* One transcode job followed step by step, in its two copies:            *)
(* TranscodeAndRenameVideo (transcode.go 349-500, the local job) and      *)
(* APITranscode (transcode.go 851-1009, the worker-side job).  Every step *)
(* that can fail is a choice between its success and its error.           *)
(***************************************************************************)

jobRun == unit

Hardware == {"nvidia", "intel", "cpu"}

\* transcode.go 868-879 and 373-384: the encoder chosen for the hardware
Encoder(hardware) ==
    CASE hardware = "nvidia" -> "h264_nvenc"
      [] hardware = "intel"  -> "h264_qsv"
      [] OTHER               -> "libx264"

\* sendCallback, transcode.go 1011-1030: one POST to the callback address
SendCallback(sent, status) == Append(sent, status)

InitOutcome ==
    /\ IdleButUnit
    /\ \E k \in {"local", "worker"}, del \in BOOLEAN, url \in {"", "cb"} :
         /\ k = "local" => url = ""
         /\ unit = [kind |-> k, autoDelete |-> del, callbackURL |-> url,
                    pc |-> "originalSize", encoder |-> "", encoded |-> FALSE,
                    measured |-> FALSE, sent |-> << >>, stored |-> 0,
                    original |-> "present"]

\* getFileSize of the source, then detectHardware (356-384, 855-879)
OriginalSize(ok, hardware) ==
    /\ jobRun.pc = "originalSize"
    /\ unit' = IF ok
               THEN [jobRun EXCEPT !.pc = "stderrPipe",
                                   !.encoder = Encoder(hardware)]
               ELSE [jobRun EXCEPT !.pc = "returned"]
    /\ UNCHANGED nonUnit

\* cmd.StderrPipe (400-406, 901-908)
StderrPipe(ok) ==
    /\ jobRun.pc = "stderrPipe"
    /\ unit' = [jobRun EXCEPT !.pc = IF ok THEN "start" ELSE "returned"]
    /\ UNCHANGED nonUnit

\* cmd.Start (419-429, 919-926)
StartEncoder(ok) ==
    /\ jobRun.pc = "start"
    /\ unit' = [jobRun EXCEPT !.pc = IF ok THEN "wait" ELSE "returned"]
    /\ UNCHANGED nonUnit

\* cmd.Wait (434-439, 931-937)
WaitEncoder(ok) ==
    /\ jobRun.pc = "wait"
    /\ unit' = IF ok
               THEN [jobRun EXCEPT !.pc = "newSize", !.encoded = TRUE]
               ELSE [jobRun EXCEPT !.pc = "returned"]
    /\ UNCHANGED nonUnit

\* getFileSize of the output.  The local job returns on the error (448-454);
\* the worker-side job reports the failure and goes on (945-959).
NewSize(j, ok) ==
    IF ok
    THEN [j EXCEPT !.pc = "record", !.measured = TRUE]
    ELSE IF j.kind = "local"
         THEN [j EXCEPT !.pc = "returned"]
         ELSE [j EXCEPT !.pc = "record",
                        !.sent = IF j.callbackURL # ""
                                 THEN SendCallback(j.sent, "failed")
                                 ELSE j.sent]

MeasureOutput(ok) ==
    /\ jobRun.pc = "newSize"
    /\ unit' = NewSize(jobRun, ok)
    /\ UNCHANGED nonUnit

\* the result: db.InsertTranscode in the local job (485), the success
\* callback in the worker-side job (989-994)
RecordResult ==
    /\ jobRun.pc = "record"
    /\ unit' = IF jobRun.kind = "local"
               THEN [jobRun EXCEPT !.pc = "delete", !.stored = @ + 1]
               ELSE [jobRun EXCEPT !.pc = "delete",
                        !.sent = IF jobRun.callbackURL # ""
                                 THEN SendCallback(@, "success")
                                 ELSE @]
    /\ UNCHANGED nonUnit

\* os.Remove of the source when autoDelete is set (490-496, 999-1005); the
\* removal itself may fail
DeleteOriginal(removed) ==
    /\ jobRun.pc = "delete"
    /\ unit' = [jobRun EXCEPT !.pc = "returned",
                   !.original = IF jobRun.autoDelete /\ removed
                                THEN "deleted" ELSE @]
    /\ UNCHANGED nonUnit

NextOutcome ==
    \/ \E ok \in BOOLEAN, hardware \in Hardware : OriginalSize(ok, hardware)
    \/ \E ok \in BOOLEAN : StderrPipe(ok)
    \/ \E ok \in BOOLEAN : StartEncoder(ok)
    \/ \E ok \in BOOLEAN : WaitEncoder(ok)
    \/ \E ok \in BOOLEAN : MeasureOutput(ok)
    \/ RecordResult
    \/ \E removed \in BOOLEAN : DeleteOriginal(removed)

SpecOutcome == InitOutcome /\ [][NextOutcome]_vars

(***************************************************************************)
(* Claims on the outcome of one job                                        *)
(***************************************************************************)

\* C34: a worker-side job that was given a callback address and has
\* returned has sent exactly one callback.
C34_ExactlyOneCallback ==
    (jobRun.kind = "worker" /\ jobRun.callbackURL # "" /\ jobRun.pc = "returned")
        => Len(jobRun.sent) = 1

\* C35: the original is deleted only when auto-delete is set, the encoder
\* exited successfully and the size of the output was measured.
C35_DeleteOnlyAfterSuccess ==
    jobRun.original = "deleted"
        => (jobRun.autoDelete /\ jobRun.encoded /\ jobRun.measured)

(***************************************************************************)
(* NonInteractiveTranscodingByDirectory, transcode.go 640-700: the         *)
(* background goroutine that starts one job per filtered record.           *)
(***************************************************************************)

batch == unit

InitBatch ==
    /\ IdleButUnit
    /\ \E m \in 0..MaxConc, n \in 1..MaxVideos :
           unit = [maxConcurrent |-> m, filtered |-> n, next |-> 1,
                   pc |-> "add", sem |-> 0, wg |-> 0, running |-> {},
                   finished |-> {}]

\* line 671: wg.Add(1), or the end of the range loop
BatchAdd ==
    /\ batch.pc = "add"
    /\ unit' = IF batch.next <= batch.filtered
               THEN [batch EXCEPT !.wg = @ + 1, !.pc = "send"]
               ELSE [batch EXCEPT !.pc = "wait"]
    /\ UNCHANGED nonUnit

\* line 672: sem <- struct{}{}, which needs room in the channel
BatchSend ==
    /\ batch.pc = "send"
    /\ batch.sem < batch.maxConcurrent
    /\ unit' = [batch EXCEPT !.sem = @ + 1, !.pc = "go"]
    /\ UNCHANGED nonUnit

\* lines 673-691: the go statement starts the job of the current record
BatchGo ==
    /\ batch.pc = "go"
    /\ unit' = [batch EXCEPT !.running = @ \cup {batch.next}, !.pc = "receive"]
    /\ UNCHANGED nonUnit

\* line 692: <-sem, in the loop itself, right after the go statement
BatchReceive ==
    /\ batch.pc = "receive"
    /\ batch.sem > 0
    /\ unit' = [batch EXCEPT !.sem = @ - 1, !.next = @ + 1, !.pc = "add"]
    /\ UNCHANGED nonUnit

\* lines 674-690: a job ends; the deferred wg.Done runs
BatchJobEnds(j) ==
    /\ j \in batch.running
    /\ unit' = [batch EXCEPT !.running = @ \ {j}, !.finished = @ \cup {j},
                             !.wg = @ - 1]
    /\ UNCHANGED nonUnit

\* line 695: wg.Wait
BatchWait ==
    /\ batch.pc = "wait"
    /\ batch.wg = 0
    /\ unit' = [batch EXCEPT !.pc = "done"]
    /\ UNCHANGED nonUnit

NextBatch ==
    \/ BatchAdd
    \/ BatchSend
    \/ BatchGo
    \/ BatchReceive
    \/ \E j \in 1..MaxVideos : BatchJobEnds(j)
    \/ BatchWait

SpecBatch == InitBatch /\ [][NextBatch]_vars

(***************************************************************************)
(* Claims on the background batch                                          *)
(***************************************************************************)

\* C36: never more than maxConcurrent jobs of the batch run at once.
C36_BatchBounded == Cardinality(batch.running) <= batch.maxConcurrent

(***************************************************************************)
(* generateNewName, transcode.go 311-319, and the output path made from    *)
(* it (353-354).  A file name is a sequence of pieces: a stem, up to       *)
(* MaxMarks marks (resolution tags and the words earlier runs put in       *)
(* names) and an extension.  No piece is made of other pieces, so two      *)
(* names are the same string exactly when they are the same sequence.      *)
(***************************************************************************)

ren == unit

Stems == {"a", "b"}
Marks == {"1080p", "1080P", "zinoCoded", "_ZinoCoded"}
Exts == {".mkv", ".mp4"}

RECURSIVE MarkSeqs(_)
MarkSeqs(k) ==
    IF k = 0 THEN {<< >>}
    ELSE MarkSeqs(k - 1)
            \cup {Append(s, m) : s \in {t \in MarkSeqs(k - 1) : Len(t) = k - 1},
                                 m \in Marks}

VideoNames == {<<s>> \o m \o <<x>> : s \in Stems, m \in MarkSeqs(MaxMarks), x \in Exts}

\* the regular expression (?i)(4k|2160p|1080p|720p) on one piece
IsTag(piece) == piece \in {"4k", "4K", "2160p", "2160P", "1080p", "1080P",
                           "720p", "720P"}

HoldsTag(name) == \E i \in 1..Len(name) : IsTag(name[i])

\* filepath.Ext: the suffix from the last dot
Ext(name) == IF Len(name) > 0 /\ name[Len(name)] \in Exts
             THEN <<name[Len(name)]>> ELSE << >>

TrimSuffix(name, ext) == SubSeq(name, 1, Len(name) - Len(ext))

GenerateNewName_NoExt(originalName) ==
    IF HoldsTag(originalName)
    THEN [i \in 1..Len(originalName) |->
             IF IsTag(originalName[i]) THEN "zinoCoded" ELSE originalName[i]]
    ELSE TrimSuffix(originalName, Ext(originalName)) \o <<"_ZinoCoded">>

GenerateNewName(originalName) ==
    IF HoldsTag(originalName)
    THEN [i \in 1..Len(originalName) |->
             IF IsTag(originalName[i]) THEN "zinoCoded" ELSE originalName[i]]
    ELSE TrimSuffix(originalName, Ext(originalName))
            \o <<"_ZinoCoded">> \o Ext(originalName)

\* filepath.Join(video.Location, newName) and video.FullFilePath
OutputPath(video) == [dir |-> video.loc, file |-> GenerateNewName(video.name)]
SourcePath(video) == [dir |-> video.loc, file |-> video.name]

\* two distinct records of one directory, no job started yet
InitNames ==
    /\ IdleButUnit
    /\ \E n1, n2 \in VideoNames :
         /\ n1 # n2
         /\ unit = [videos |-> <<[loc |-> <<"lib">>, name |-> n1],
                                 [loc |-> <<"lib">>, name |-> n2]>>,
                    out |-> << >>]

\* the job of the next record derives its output path
DeriveOutput ==
    /\ Len(ren.out) < Len(ren.videos)
    /\ unit' = [ren EXCEPT !.out = Append(@, OutputPath(ren.videos[Len(@) + 1]))]
    /\ UNCHANGED nonUnit

NextNames == DeriveOutput

SpecNames == InitNames /\ [][NextNames]_vars

(***************************************************************************)
(* Claims on the output names                                              *)
(***************************************************************************)

\* C38 as stated: two distinct records never get the same output path, and
\* an output path differs from its source path.
C38_OutputsDistinct ==
    /\ \A i, j \in 1..Len(ren.out) : i # j => ren.out[i] # ren.out[j]
    /\ \A i \in 1..Len(ren.out) : ren.out[i] # SourcePath(ren.videos[i])

\* C38: two distinct records whose names hold no resolution tag never get
\* the same output path, and an output path always differs from its source
\* path.
C38_TagFreeOutputsDistinct ==
    /\ \A i, j \in 1..Len(ren.out) :
          (i # j /\ ~HoldsTag(ren.videos[i].name) /\ ~HoldsTag(ren.videos[j].name))
              => ren.out[i] # ren.out[j]
    /\ \A i \in 1..Len(ren.out) : ren.out[i] # SourcePath(ren.videos[i])

\* both outputs derived, for two tag-free names with one stem and one mark
C38_Witness ==
    /\ Len(ren.out) = 2
    /\ ~HoldsTag(ren.videos[1].name)
    /\ ~HoldsTag(ren.videos[2].name)
    /\ ren.videos[1].name[1] = ren.videos[2].name[1]
    /\ Len(ren.videos[1].name) = 3
    /\ SubSeq(ren.videos[1].name, 1, 2) = SubSeq(ren.videos[2].name, 1, 2)

(***************************************************************************)
(* Claims on slot acquisition in startTranscoding                          *)
(***************************************************************************)

\* C39: the dispatch loop never waits for a slot that no job will ever
\* release: when it stands at the send on sem and no launched job holds a
\* slot, the send can proceed.
C39_AcquireNeverStuck ==
    (mainPc = "acquire" /\ SlotHolders = {}) => SemCanSend(sem, maxConcurrent)

(***************************************************************************)
(* One submission from its two ends: sendToTranscodingServer              *)
(* (apitranscode.go 24-58) builds and posts the request, handleTranscode  *)
(* (transcode.go 797-836) decodes and validates it.                       *)
(***************************************************************************)

sub == unit

SubmitPaths == {"", "/lib/x.mkv"}
SubmitResolutions == {"", "1280x720", "1920x1080"}
SubmitBitrates == {-1, 0, 3500}

\* apitranscode.go 29: the callback address the dispatcher puts in a request
ClientCallbackURL == "http://<client_ip>:<client_port>/callback"

\* apitranscode.go 32-38: the JSON object of a submission
Payload(path, resolution, bitrate, autoDelete) ==
    [file_path    |-> path,
     resolution   |-> resolution,
     bitrate      |-> bitrate,
     auto_delete  |-> autoDelete,
     callback_url |-> ClientCallbackURL]

\* encoding/json matches an object key with a field tag without regard to
\* case, and in no other way
LowerCase(key) ==
    CASE key = "autoDelete"  -> "autodelete"
      [] key = "callbackURL" -> "callbackurl"
      [] OTHER               -> key

\* the value decoded into the field tagged tag, or the zero value
Field(payload, tag, zero) ==
    LET keys == {k \in DOMAIN payload : LowerCase(k) = LowerCase(tag)}
    IN  IF keys = {} THEN zero ELSE payload[CHOOSE k \in keys : TRUE]

\* transcode.go 789-795 and 806-811: TranscodeRequest decoded from the body
DecodeRequest(payload) ==
    [Video       |-> Field(payload, "video", [FullFilePath |-> ""]),
     Resolution  |-> Field(payload, "resolution", ""),
     Bitrate     |-> Field(payload, "bitrate", 0),
     AutoDelete  |-> Field(payload, "autoDelete", FALSE),
     CallbackURL |-> Field(payload, "callbackURL", "")]

\* transcode.go 814: the validation of handleTranscode
ValidRequest(req) ==
    ~(req.Resolution = "" \/ req.Bitrate <= 0 \/ req.Video.FullFilePath = "")

NoRequest == [Video |-> [FullFilePath |-> ""], Resolution |-> "", Bitrate |-> 0,
              AutoDelete |-> FALSE, CallbackURL |-> ""]

InitSubmit ==
    /\ IdleButUnit
    /\ \E p \in SubmitPaths, r \in SubmitResolutions, b \in SubmitBitrates,
          d \in BOOLEAN :
           unit = [path |-> p, resolution |-> r, bitrate |-> b,
                   autoDelete |-> d, pc |-> "build", body |-> << >>,
                   req |-> NoRequest, status |-> "", started |-> {},
                   err |-> FALSE]

\* apitranscode.go 32-49: the payload is built, marshalled and posted
SubmitPost ==
    /\ sub.pc = "build"
    /\ unit' = [sub EXCEPT !.body = Payload(sub.path, sub.resolution,
                                            sub.bitrate, sub.autoDelete),
                           !.pc = "decode"]
    /\ UNCHANGED nonUnit

\* transcode.go 806-811: the worker decodes the body
SubmitDecode ==
    /\ sub.pc = "decode"
    /\ unit' = [sub EXCEPT !.req = DecodeRequest(sub.body), !.pc = "validate"]
    /\ UNCHANGED nonUnit

\* transcode.go 813-828: 400 on an invalid request; otherwise the job is
\* started in a goroutine and the answer is 202
SubmitValidate ==
    /\ sub.pc = "validate"
    /\ unit' = IF ValidRequest(sub.req)
               THEN [sub EXCEPT !.status = "202", !.pc = "answered",
                        !.started = {[video |-> sub.req.Video.FullFilePath,
                                      callbackURL |-> sub.req.CallbackURL]}]
               ELSE [sub EXCEPT !.status = "400", !.pc = "answered"]
    /\ UNCHANGED nonUnit

\* apitranscode.go 52-57: any status but 200 is an error for the dispatcher
SubmitAnswer ==
    /\ sub.pc = "answered"
    /\ unit' = [sub EXCEPT !.err = (sub.status # "200"), !.pc = "returned"]
    /\ UNCHANGED nonUnit

NextSubmit ==
    \/ SubmitPost
    \/ SubmitDecode
    \/ SubmitValidate
    \/ SubmitAnswer

SpecSubmit == InitSubmit /\ [][NextSubmit]_vars

(***************************************************************************)
(* Claims on the submission request                                        *)
(***************************************************************************)

\* C40: a request built for a record with a non-empty path, a non-empty
\* resolution and a positive bitrate passes the worker's validation and
\* starts a job for that record with that callback address.
C40_RequestAccepted ==
    (sub.pc \in {"answered", "returned"}
        /\ sub.path # "" /\ sub.resolution # "" /\ sub.bitrate > 0)
      => sub.started = {[video |-> sub.path, callbackURL |-> ClientCallbackURL]}

====
